---- MODULE Spec2Model ----
(***************************************************************************)
(* Retrieval pipeline of simple_agent_llm: query expansion, union          *)
(* multi-query retrieval with deduplication, embedding and cross-encoder   *)
(* reranking and the top-level search, as implemented twice in the         *)
(* repository: the Flask path (main.py) and PineconeSearchTool (tools.py). *)
(***************************************************************************)
EXTENDS Integers, Sequences, FiniteSets, TLC

(***************************************************************************)
(* Bounds of the model                                                     *)
(***************************************************************************)
\* number of query variants handed to union retrieval
NVar == 2
\* scores a scorer may give, 0..MaxScore
MaxScore == 2
\* longest passage list handed directly to a reranker
MaxPassages == 3
\* largest explicit rerank_top_k / n of a request
MaxTopK == 2
\* most lines the generator model answers with
MaxLines == 2
\* largest n asked of the query expander
MaxN == 3
\* most tokens in an answer of the classifying model
MaxTokens == 2
\* most /chat requests accepted in a run
MaxRequests == 2

\* config.RETRIEVAL_K default: passages asked per variant
RETRIEVAL_K == 2
\* config.RERANK_TOP_K_DEFAULT default
RERANK_TOP_K_DEFAULT == 0

\* Python's None where a string is expected
None == "<none>"
\* an optional number: None is <<>>, the number n is <<n>>
NoInt == <<>>
SomeInt(n) == <<n>>
IsInt(o) == o # <<>>
IntOf(o) == o[1]

(***************************************************************************)
(* Text: a Python str is a sequence of one-character strings               *)
(***************************************************************************)
Whitespace == {" "}

RECURSIVE LStripChars(_, _)
LStripChars(s, chars) ==
    IF s # <<>> /\ Head(s) \in chars THEN LStripChars(Tail(s), chars) ELSE s

RECURSIVE RStripChars(_, _)
RStripChars(s, chars) ==
    IF s # <<>> /\ s[Len(s)] \in chars
    THEN RStripChars(SubSeq(s, 1, Len(s) - 1), chars)
    ELSE s

\* str.strip(chars)
StripChars(s, chars) == RStripChars(LStripChars(s, chars), chars)

\* str.strip()
Strip(s) == StripChars(s, Whitespace)

LowerChar(c) == CASE c = "A" -> "a" [] c = "B" -> "b" [] OTHER -> c
UpperChar(c) == CASE c = "a" -> "A" [] c = "b" -> "B" [] OTHER -> c

\* str.lower() / str.upper()
Lower(s) == [i \in 1..Len(s) |-> LowerChar(s[i])]
Upper(s) == [i \in 1..Len(s) |-> UpperChar(s[i])]

\* x in list
InSeq(x, s) == \E i \in 1..Len(s) : s[i] = x

\* list[:n] for an int n (negative n counts from the end) or None
Slice(s, o) ==
    IF ~IsInt(o) THEN s
    ELSE LET n == IntOf(o)
         IN IF n >= 0 THEN SubSeq(s, 1, IF n < Len(s) THEN n ELSE Len(s))
            ELSE SubSeq(s, 1, IF Len(s) + n > 0 THEN Len(s) + n ELSE 0)

Min(a, b) == IF a < b THEN a ELSE b

\* all sequences over S of length at most n
SeqsUpTo(S, n) == UNION {[1..m -> S] : m \in 0..n}

(***************************************************************************)
(* Passages (langchain Document): page_content, the metadata the index     *)
(* gave (source) and the two metadata keys a reranker writes               *)
(***************************************************************************)
RawTexts == {<<"a">>, <<" ", "a">>, <<"b">>}
Sources == {"m1", "m2"}

Document(text, src) ==
    [page_content |-> text, source |-> src,
     rerank_score |-> NoInt, rerank_method |-> None]

IndexDocs == {Document(t, m) : t \in RawTexts, m \in Sources}

\* (d.page_content or ""): the index gives every passage a text
ContentOf(d) == d.page_content

\* hash((d.page_content or "").strip()); str hashing is taken as collision
\* free, so the key is the trimmed text itself
DedupKey(d) == Strip(ContentOf(d))

\* what one index lookup does: raises, or returns up to k passages
Raises == [raises |-> TRUE, docs |-> <<>>]
Returns(docs) == [raises |-> FALSE, docs |-> docs]
Responses(k) == {Raises} \cup {Returns(ds) : ds \in SeqsUpTo(IndexDocs, k)}

(***************************************************************************)
(* Scorers.  A score is a number of 1e-7 units; the cosine of the embedding *)
(* scorer and the relevance of the cross-encoder are opaque functions of   *)
(* the passage text for the query at hand.                                 *)
(***************************************************************************)
ScoreValues == {4 * n : n \in 0..MaxScore}
ScoreFns == [RawTexts -> ScoreValues]
ZeroScores == [t \in RawTexts |-> 0]

\* round(score, 6)
Round6(x) == ((x + 5) \div 10) * 10

\* what the scorers do when called: the cross-encoder constructs and
\* predicts ("ok"), fails to construct or fails to predict; the embedding
\* scorer raises or not; scores are the answers of the scorer that answers
EmbeddingEnvs ==
    {[ce |-> "ok", embed_raises |-> TRUE, scores |-> ZeroScores]}
    \cup {[ce |-> "ok", embed_raises |-> FALSE, scores |-> f] : f \in ScoreFns}
CrossEncoderEnvs ==
    EmbeddingEnvs
    \cup {[e EXCEPT !.ce = m] : e \in EmbeddingEnvs,
                                m \in {"construct_raises", "predict_raises"}}

VARIABLES
    impl,        \* "main" (main.py) or "tools" (PineconeSearchTool)
    use_mock,    \* PineconeSearchTool.use_mock
    pc,          \* position of the running call
    req,         \* the arguments of the running call
    queries,     \* the query variants of the running retrieval
    qi,          \* index of the variant the loop is at
    collected,   \* retrieve_union / _retrieve_with_variants: collected
    seen,        \* ... and seen
    lookups,     \* history: what each index lookup answered, in call order
    CROSS_ENCODER_CACHE,  \* main.CROSS_ENCODER_CACHE
    env,         \* history: what the scorers answered to the running call
    outcome,     \* what the running call returned or raised
    memory_store,  \* main.memory_store: session id -> {messages, expires_at}
    now,           \* main._now(): the clock, in ticks
    MAX_HISTORY,   \* main.MAX_HISTORY, as configured at start
    handlers,      \* the request threads: where each is, and its locals
    response,      \* history: the last response a handler sent
    turns,         \* history: the messages of the turns completed, per session
    pinecone_tool, \* tools._pinecone_tool
    constructed,   \* history: how many times each constructor ran
    requests,      \* history: how many /chat requests passed validation
    PINECONE_API_KEY,  \* config.PINECONE_API_KEY: set (TRUE) or not
    conversations  \* the ConversationManager objects created, in order

pipelineVars == <<impl, use_mock, pc, req, queries, qi, collected, seen,
                  lookups, CROSS_ENCODER_CACHE, env, outcome>>

serviceVars == <<memory_store, now, MAX_HISTORY, handlers, response, turns,
                 pinecone_tool, constructed, requests, PINECONE_API_KEY,
                 conversations>>

vars == <<pipelineVars, serviceVars>>

(***************************************************************************)
(* Union retrieval                                                         *)
(***************************************************************************)
\* a mutant: the last instance of a text replaces the first
RECURSIVE CollectDocsKeepLast(_, _)
CollectDocsKeepLast(st, docs) ==
    IF docs = <<>> THEN st
    ELSE LET d == Head(docs)
             key == DedupKey(d)
         IN IF key \notin st.seen
            THEN CollectDocsKeepLast([seen |-> st.seen \cup {key},
                              collected |-> Append(st.collected, d)], Tail(docs))
            ELSE CollectDocsKeepLast(
                     [seen |-> st.seen,
                      collected |-> [i \in 1..Len(st.collected) |->
                           IF DedupKey(st.collected[i]) = key THEN d
                           ELSE st.collected[i]]], Tail(docs))

\* the inner loop over one variant's documents: first-seen deduplication
RECURSIVE CollectDocs(_, _)
CollectDocs(st, docs) ==
    IF docs = <<>> THEN st
    ELSE LET d == Head(docs)
             key == DedupKey(d)
         IN IF key \notin st.seen
            THEN CollectDocs([seen |-> st.seen \cup {key},
                              collected |-> Append(st.collected, d)], Tail(docs))
            ELSE CollectDocs(st, Tail(docs))

\* a mutant: a failing lookup is not caught
LoopBodyUncaught(st, resp) ==
    IF resp.raises THEN [st |-> st, escapes |-> TRUE]
    ELSE [st |-> CollectDocs(st, resp.docs), escapes |-> FALSE]

\* main.retrieve_union, one pass of `for q in queries`: the lookup is the
\* only statement inside the try; a failure is logged and the loop continues
MainLoopBody(st, resp) ==
    IF resp.raises THEN [st |-> st, escapes |-> FALSE]
    ELSE [st |-> CollectDocs(st, resp.docs), escapes |-> FALSE]

\* PineconeSearchTool._retrieve_with_variants, one pass of the loop: lookup
\* and collection are both inside the try; a failure is logged and the loop
\* continues
ToolsLoopBody(st, resp) ==
    IF resp.raises THEN [st |-> st, escapes |-> FALSE]
    ELSE [st |-> CollectDocs(st, resp.docs), escapes |-> FALSE]

LoopBody(i, st, resp) ==
    IF i = "main" THEN MainLoopBody(st, resp) ELSE ToolsLoopBody(st, resp)

\* an outcome: the value returned, or an exception that escaped, with the
\* scorer calls made on the way
NoOutcome ==
    [docs |-> <<>>, raised |-> FALSE, embed_calls |-> 0,
     ce_constructs |-> 0, ce_predicts |-> 0, scoring_query |-> <<>>,
     cache |-> None]
Returned(docs) == [NoOutcome EXCEPT !.docs = docs]
Escaped == [NoOutcome EXCEPT !.raised = TRUE]

\* one lookup of the loop, answered by the index with resp
RetrieveLookup(keepHistory) ==
    /\ pc = "retrieving"
    /\ qi <= Len(queries)
    /\ \E resp \in Responses(req.k) :
          LET r == LoopBody(impl, [seen |-> seen, collected |-> collected], resp)
          IN /\ collected' = r.st.collected
             /\ seen' = r.st.seen
             /\ qi' = qi + 1
             /\ pc' = IF r.escapes THEN "done" ELSE pc
             /\ outcome' = IF r.escapes THEN Escaped ELSE outcome
             /\ lookups' = IF keepHistory THEN Append(lookups, resp) ELSE lookups
    /\ UNCHANGED <<impl, use_mock, req, queries, CROSS_ENCODER_CACHE, env>>
    /\ UNCHANGED serviceVars

\* the loop is over: the collection phase hands over `collected`
RetrieveDone ==
    /\ pc = "retrieving"
    /\ qi > Len(queries)
    /\ pc' = "collected"
    /\ UNCHANGED <<impl, use_mock, req, queries, qi, collected, seen, lookups,
                   CROSS_ENCODER_CACHE, env, outcome>>
    /\ UNCHANGED serviceVars

\* the service at rest: nothing stored, no request in flight
ServiceIdle ==
    /\ memory_store = <<>>
    /\ now = 0
    /\ MAX_HISTORY = 0
    /\ handlers = <<>>
    /\ response = [status |-> 0]
    /\ turns = <<>>
    /\ pinecone_tool = None
    /\ constructed = 0
    /\ requests = 0
    /\ PINECONE_API_KEY = TRUE
    /\ conversations = <<>>

(***************************************************************************)
(* Specification of union retrieval alone: any list of up to NVar variants *)
(***************************************************************************)
VariantPool == <<<<"a">>, <<"A">>, <<"b">>, <<"B">>, <<"a", "b">>>>

NoEnv == [ce |-> "ok", embed_raises |-> FALSE, scores |-> ZeroScores]

RetrieveInit ==
    /\ impl \in {"main", "tools"}
    /\ use_mock = FALSE
    /\ pc = "retrieving"
    /\ req = [query |-> <<>>, k |-> RETRIEVAL_K, method |-> "none", top_k |-> NoInt]
    /\ \E n \in 0..NVar : queries = SubSeq(VariantPool, 1, n)
    /\ qi = 1
    /\ collected = <<>>
    /\ seen = {}
    /\ lookups = <<>>
    /\ CROSS_ENCODER_CACHE = None
    /\ env = NoEnv
    /\ outcome = NoOutcome
    /\ ServiceIdle

RetrieveLookupStep == RetrieveLookup(TRUE)

RetrieveNext == RetrieveLookupStep \/ RetrieveDone

SpecRetrieve == RetrieveInit /\ [][RetrieveNext]_vars

\* the passages the non-failing lookups returned, in the order returned
RECURSIVE Stream(_)
Stream(ls) ==
    IF ls = <<>> THEN <<>>
    ELSE (IF Head(ls).raises THEN <<>> ELSE Head(ls).docs) \o Stream(Tail(ls))

\* the position in s of the first passage with the trimmed text of d
FirstPos(s, d) ==
    CHOOSE i \in 1..Len(s) :
        /\ Strip(s[i].page_content) = Strip(d.page_content)
        /\ \A j \in 1..(i - 1) : Strip(s[j].page_content) # Strip(d.page_content)

\* C1: whatever the lookups answered, the collected sequence never holds two
\* passages of equal trimmed text, holds a passage for every trimmed text a
\* non-failing lookup returned, and that passage is the first instance
\* returned (with its own metadata), in order of first encounter.
C1_UnionDedup ==
    LET s == Stream(lookups)
    IN /\ \A i, j \in 1..Len(collected) :
            i # j => Strip(collected[i].page_content) # Strip(collected[j].page_content)
       /\ \A p \in 1..Len(s) : \E i \in 1..Len(collected) :
            Strip(collected[i].page_content) = Strip(s[p].page_content)
       /\ \A i \in 1..Len(collected) :
            /\ \E p \in 1..Len(s) : Strip(s[p].page_content) = Strip(collected[i].page_content)
            /\ collected[i] = s[FirstPos(s, collected[i])]
       /\ \A i, j \in 1..Len(collected) :
            i < j => FirstPos(s, collected[i]) < FirstPos(s, collected[j])

\* two variants returned the same trimmed text with differing instances, and
\* the collection phase is over
C1_Witness ==
    /\ pc = "collected"
    /\ impl = "tools"
    /\ Len(lookups) = 2
    /\ ~lookups[1].raises /\ ~lookups[2].raises
    /\ Len(lookups[1].docs) = 2 /\ Len(lookups[2].docs) = 2
    /\ Strip(lookups[2].docs[1].page_content) = Strip(lookups[1].docs[2].page_content)
    /\ lookups[2].docs[1] # lookups[1].docs[2]
    /\ Len(collected) = 2

\* the lookups with every failing one replaced by an empty answer
ZeroFailing(ls) == [i \in 1..Len(ls) |-> IF ls[i].raises THEN Returns(<<>>) ELSE ls[i]]

\* first-seen deduplication of a passage stream, stated on positions
RECURSIVE KeepFirsts(_, _)
KeepFirsts(s, i) ==
    IF i > Len(s) THEN <<>>
    ELSE (IF \A j \in 1..(i - 1) : Strip(s[j].page_content) # Strip(s[i].page_content)
          THEN <<s[i]>> ELSE <<>>) \o KeepFirsts(s, i + 1)

\* C2: whichever lookups raise, every variant is still looked up, nothing
\* escapes, and the collection is the deduplicated collection of the same
\* answers with the failing ones taken as empty.
C2_FailureIsolation ==
    /\ ~outcome.raised
    /\ pc = "collected" =>
          /\ Len(lookups) = Len(queries)
          /\ collected = KeepFirsts(Stream(ZeroFailing(lookups)), 1)

\* the first lookup raised, the second returned passages that were collected
C2_Witness ==
    /\ pc = "collected"
    /\ impl = "main"
    /\ Len(lookups) = 2
    /\ lookups[1].raises /\ ~lookups[2].raises
    /\ Len(collected) = 2

(***************************************************************************)
(* Reranking                                                               *)
(***************************************************************************)
\* a mutant: before the elements of equal score, so that ties come out in
\* reverse collection order
InsertDescBeforeTies(order, i, sc) ==
    LET pos == Cardinality({n \in 1..Len(order) : sc[order[n]] > sc[i]})
    IN SubSeq(order, 1, pos) \o <<i>> \o SubSeq(order, pos + 1, Len(order))

\* where index i goes in an order already sorted by descending score: after
\* every element whose score is not lower (list.sort is stable)
InsertDesc(order, i, sc) ==
    LET pos == Cardinality({n \in 1..Len(order) : sc[order[n]] >= sc[i]})
    IN SubSeq(order, 1, pos) \o <<i>> \o SubSeq(order, pos + 1, Len(order))

RECURSIVE SortFrom(_, _, _)
SortFrom(sc, i, order) ==
    IF i > Len(sc) THEN order ELSE SortFrom(sc, i + 1, InsertDesc(order, i, sc))

\* scored_docs.sort(key=lambda x: x[0], reverse=True): the indices of sc by
\* descending score, equal scores in their original order
SortDesc(sc) == SortFrom(sc, 1, <<>>)

\* doc.metadata["rerank_score"] = ...; doc.metadata["rerank_method"] = ...
Annotate(d, score, method) ==
    [d EXCEPT !.rerank_score = SomeInt(score), !.rerank_method = method]

\* the scores of docs under the answering scorer
ScoresOf(docs, e) == [i \in 1..Len(docs) |-> e.scores[ContentOf(docs[i])]]

\* a mutant: no early return for an empty passage list
MainRerankByEmbeddingNoGuard(query, docs, top_k, e) ==
    IF e.embed_raises
    THEN [Escaped EXCEPT !.embed_calls = 1, !.scoring_query = <<query>>]
    ELSE LET sc == ScoresOf(docs, e)
             top == Slice(SortDesc(sc), top_k)
         IN [Returned([j \in 1..Len(top) |->
                          Annotate(docs[top[j]], Round6(sc[top[j]]), "embedding")])
                EXCEPT !.embed_calls = 2, !.scoring_query = <<query>>]

\* main.rerank_by_embedding
MainRerankByEmbedding(query, docs, top_k, e) ==
    IF docs = <<>> THEN Returned(docs)
    ELSE IF e.embed_raises
    THEN [Escaped EXCEPT !.embed_calls = 1, !.scoring_query = <<query>>]
    ELSE LET sc == ScoresOf(docs, e)
             top == Slice(SortDesc(sc), top_k)
         IN [Returned([j \in 1..Len(top) |->
                          Annotate(docs[top[j]], Round6(sc[top[j]]), "embedding")])
                EXCEPT !.embed_calls = 2, !.scoring_query = <<query>>]

\* PineconeSearchTool._rerank_by_embedding
ToolsRerankByEmbedding(query, docs, top_k, e) ==
    IF docs = <<>> THEN Returned(docs)
    ELSE IF e.embed_raises
    THEN [Escaped EXCEPT !.embed_calls = 1, !.scoring_query = <<query>>]
    ELSE LET sc == ScoresOf(docs, e)
             top == Slice(SortDesc(sc), top_k)
         IN [Returned([j \in 1..Len(top) |->
                          Annotate(docs[top[j]], Round6(sc[top[j]]), "embedding")])
                EXCEPT !.embed_calls = 2, !.scoring_query = <<query>>]

\* main.get_cross_encoder: construct unless cached; a failing construction
\* leaves the cache as it was
MainGetCrossEncoder(cache, e) ==
    IF cache = None
    THEN IF e.ce = "construct_raises"
         THEN [raises |-> TRUE, cache |-> cache, constructs |-> 1]
         ELSE [raises |-> FALSE, cache |-> "model", constructs |-> 1]
    ELSE [raises |-> FALSE, cache |-> cache, constructs |-> 0]

\* the cross-encoder ranking both implementations build once they hold
\* scores: stable descending sort, cut, raw score
CrossEncoderRanking(docs, top_k, e) ==
    LET sc == ScoresOf(docs, e)
        top == Slice(SortDesc(sc), top_k)
    IN [j \in 1..Len(top) |-> Annotate(docs[top[j]], sc[top[j]], "cross_encoder")]

\* main.rerank_by_cross_encoder: only the construction is inside the try
MainRerankByCrossEncoder(query, docs, top_k, e, cache) ==
    IF docs = <<>> THEN [Returned(docs) EXCEPT !.cache = cache]
    ELSE LET g == MainGetCrossEncoder(cache, e)
         IN IF g.raises
            THEN [MainRerankByEmbedding(query, docs, top_k, e)
                     EXCEPT !.ce_constructs = g.constructs, !.cache = g.cache]
            ELSE IF e.ce = "predict_raises"
            THEN [Escaped EXCEPT !.ce_constructs = g.constructs, !.ce_predicts = 1,
                                 !.cache = g.cache, !.scoring_query = <<query>>]
            ELSE [Returned(CrossEncoderRanking(docs, top_k, e))
                     EXCEPT !.ce_constructs = g.constructs, !.ce_predicts = 1,
                            !.cache = g.cache, !.scoring_query = <<query>>]

\* self._get_cross_encoder(): PineconeSearchTool defines no such method
\* (__init__ only sets self.cross_encoder = None), so the call raises
\* AttributeError before any scorer is built
ToolsGetCrossEncoder == [raises |-> TRUE, constructs |-> 0]

\* PineconeSearchTool._rerank_by_cross_encoder: the whole ranking is inside
\* the try, and any exception falls back to the embedding rerank
ToolsRerankByCrossEncoder(query, docs, top_k, e) ==
    IF docs = <<>> THEN Returned(docs)
    ELSE LET g == ToolsGetCrossEncoder
         IN IF g.raises
            THEN ToolsRerankByEmbedding(query, docs, top_k, e)
            ELSE IF e.ce = "predict_raises"
            THEN [ToolsRerankByEmbedding(query, docs, top_k, e)
                     EXCEPT !.ce_constructs = g.constructs, !.ce_predicts = 1]
            ELSE [Returned(CrossEncoderRanking(docs, top_k, e))
                     EXCEPT !.ce_constructs = g.constructs, !.ce_predicts = 1,
                            !.scoring_query = <<query>>]

RerankByEmbedding(i, query, docs, top_k, e) ==
    IF i = "main" THEN MainRerankByEmbedding(query, docs, top_k, e)
    ELSE ToolsRerankByEmbedding(query, docs, top_k, e)

RerankByCrossEncoder(i, query, docs, top_k, e, cache) ==
    IF i = "main" THEN MainRerankByCrossEncoder(query, docs, top_k, e, cache)
    ELSE [ToolsRerankByCrossEncoder(query, docs, top_k, e) EXCEPT !.cache = cache]

\* a call of rerank_by_embedding / _rerank_by_embedding
RerankEmbeddingCall ==
    /\ pc = "rerank"
    /\ req.method = "embedding"
    /\ \E e \in EmbeddingEnvs :
          /\ env' = e
          /\ outcome' = [RerankByEmbedding(impl, req.query, collected, req.top_k, e)
                            EXCEPT !.cache = CROSS_ENCODER_CACHE]
    /\ pc' = "done"
    /\ UNCHANGED <<impl, use_mock, req, queries, qi, collected, seen, lookups,
                   CROSS_ENCODER_CACHE>>
    /\ UNCHANGED serviceVars

\* a call of rerank_by_cross_encoder / _rerank_by_cross_encoder
RerankCrossEncoderCall ==
    /\ pc = "rerank"
    /\ req.method = "cross-encoder"
    /\ \E e \in CrossEncoderEnvs :
          LET o == RerankByCrossEncoder(impl, req.query, collected, req.top_k, e,
                                        CROSS_ENCODER_CACHE)
          IN /\ env' = e
             /\ outcome' = o
             /\ CROSS_ENCODER_CACHE' = o.cache
    /\ pc' = "done"
    /\ UNCHANGED <<impl, use_mock, req, queries, qi, collected, seen, lookups>>
    /\ UNCHANGED serviceVars

(***************************************************************************)
(* Specification of the two rerankers alone: any passage list, any top_k   *)
(***************************************************************************)
RerankPool == {Document(t, "m1") : t \in RawTexts}
TheQuery == <<"a", "B">>

RerankInit ==
    /\ impl \in {"main", "tools"}
    /\ use_mock = FALSE
    /\ pc = "rerank"
    /\ \E m \in {"embedding", "cross-encoder"}, n \in 1..MaxTopK :
          req = [query |-> TheQuery, k |-> RETRIEVAL_K, method |-> m,
                 top_k |-> SomeInt(n)]
    /\ queries = <<>>
    /\ qi = 1
    /\ collected \in SeqsUpTo(RerankPool, MaxPassages)
    /\ seen = {}
    /\ lookups = <<>>
    /\ CROSS_ENCODER_CACHE \in (IF impl = "main" THEN {None, "model"} ELSE {None})
    /\ env = NoEnv
    /\ outcome = NoOutcome
    /\ ServiceIdle

RerankNext == RerankEmbeddingCall \/ RerankCrossEncoderCall

SpecRerank == RerankInit /\ [][RerankNext]_vars

\* the cross-encoder scorer failed in the finished call: its construction was
\* attempted and raised, or its predict raised
CrossEncoderFailed ==
    /\ pc = "done"
    /\ req.method = "cross-encoder"
    /\ collected # <<>>
    /\ \/ env.ce = "predict_raises"
       \/ env.ce = "construct_raises" /\ outcome.ce_constructs = 1

\* C3: whenever the cross-encoder scorer cannot be constructed or raises in
\* predict, the cross-encoder rerank returns what the embedding rerank
\* returns for the same query, passages and top_k, and nothing escapes.
C3_CrossEncoderFallback ==
    (CrossEncoderFailed /\ ~env.embed_raises) =>
        /\ ~outcome.raised
        /\ outcome.docs =
              RerankByEmbedding(impl, req.query, collected, req.top_k, env).docs

\* position of passage i in a descending stable ranking by sc
Rank(sc, i) ==
    Cardinality({j \in 1..Len(sc) : sc[j] > sc[i] \/ (sc[j] = sc[i] /\ j < i)}) + 1

\* C10: for a non-empty passage list and top_k >= 1 the embedding rerank
\* returns min(top_k, len) passages; the passage at output position p is the
\* input passage that p-1 others precede (a higher score, or an equal score
\* and an earlier position), so every output is a distinct input passage; it
\* carries rerank_method = embedding and its score rounded to 6 digits.
C10_EmbeddingStableSort ==
    (/\ pc = "done"
     /\ req.method = "embedding"
     /\ collected # <<>>
     /\ ~env.embed_raises) =>
        LET sc == [i \in 1..Len(collected) |-> env.scores[collected[i].page_content]]
            n == Min(IntOf(req.top_k), Len(collected))
        IN /\ ~outcome.raised
           /\ Len(outcome.docs) = n
           /\ \A p \in 1..n : \E i \in 1..Len(collected) :
                 /\ Rank(sc, i) = p
                 /\ outcome.docs[p].page_content = collected[i].page_content
                 /\ outcome.docs[p].source = collected[i].source
                 /\ outcome.docs[p].rerank_method = "embedding"
                 /\ outcome.docs[p].rerank_score = SomeInt(Round6(sc[i]))

\* three passages, the first two of equal score below the third, cut to two:
\* the tie is decided by collection order and the list is truncated
C10_Witness ==
    /\ pc = "done"
    /\ req.method = "embedding"
    /\ impl = "tools"
    /\ ~env.embed_raises
    /\ Len(collected) = 3
    /\ req.top_k = SomeInt(2)
    /\ collected[1] # collected[2]
    /\ env.scores[collected[1].page_content] = env.scores[collected[2].page_content]
    /\ env.scores[collected[3].page_content] > env.scores[collected[1].page_content]
    /\ outcome.docs[2].page_content = collected[1].page_content

(***************************************************************************)
(* Query expansion                                                         *)
(***************************************************************************)
\* PineconeSearchTool._generate_query_variants
ToolsGenerateQueryVariants(query, n) ==
    LET q_lower == Strip(Lower(query))
        q_upper == Strip(Upper(query))
        v1 == <<query>>
        v2 == IF ~InSeq(q_lower, v1) THEN Append(v1, q_lower) ELSE v1
        v3 == IF ~InSeq(q_upper, v2) /\ Len(v2) < n THEN Append(v2, q_upper) ELSE v2
    IN Slice(v3, SomeInt(n))

\* the loop of main._fallback_variants over base + extras
RECURSIVE FallbackLoop(_, _, _)
FallbackLoop(cands, out, n) ==
    IF cands = <<>> THEN out
    ELSE LET s == Strip(Head(cands))
             out2 == IF s # <<>> /\ ~InSeq(s, out) THEN Append(out, s) ELSE out
         IN IF Len(out2) >= n THEN out2 ELSE FallbackLoop(Tail(cands), out2, n)

\* main._fallback_variants
MainFallbackVariants(question, n) ==
    LET q == Strip(question)
    IN FallbackLoop(<<q, Lower(q), Upper(q)>>, <<>>, n)

\* the characters line.strip("•- \t") removes
BulletChars == {"-", " "}

\* [line.strip(bullets) for line in content.splitlines() if line.strip()]
RECURSIVE CleanLines(_)
CleanLines(lines) ==
    IF lines = <<>> THEN <<>>
    ELSE (IF Strip(Head(lines)) # <<>>
          THEN <<StripChars(Head(lines), BulletChars)>> ELSE <<>>)
         \o CleanLines(Tail(lines))

\* main.generate_llm_variants; llm is the generator: absent (client is None),
\* raising, or answering with lines
MainGenerateLlmVariants(question, n, llm) ==
    IF question = <<>> \/ Strip(question) = <<>> THEN <<>>
    ELSE IF llm.mode = "absent" THEN MainFallbackVariants(question, n)
    ELSE IF llm.mode = "raises" THEN MainFallbackVariants(question, n)
    ELSE LET variants == CleanLines(llm.lines)
             withq == IF ~InSeq(Strip(question), variants)
                      THEN <<Strip(question)>> \o variants ELSE variants
         IN Slice(withq, SomeInt(n))

\* the lines a generator may answer with
LinePool == {<<"b">>, <<"-", " ", "b">>, <<"a">>, <<"-">>, <<"a", "B">>}
Generators ==
    {[mode |-> "absent", lines |-> <<>>], [mode |-> "raises", lines |-> <<>>]}
    \cup {[mode |-> "ok", lines |-> ls] : ls \in SeqsUpTo(LinePool, MaxLines)}

\* the queries expanded: non-empty, as the chat endpoint passes them (trimmed)
QueryPool == {<<"a">>, <<"A">>, <<"a", "B">>}

Expand(expander, query, n, llm) ==
    IF expander = "tools" THEN ToolsGenerateQueryVariants(query, n)
    ELSE IF expander = "fallback" THEN MainFallbackVariants(query, n)
    ELSE MainGenerateLlmVariants(query, n, llm)

\* a call of the expander
ExpandCall ==
    /\ pc = "expand"
    /\ queries' = Expand(req.expander, req.query, req.n, req.llm)
    /\ pc' = "expanded"
    /\ UNCHANGED <<impl, use_mock, req, qi, collected, seen, lookups,
                   CROSS_ENCODER_CACHE, env, outcome>>
    /\ UNCHANGED serviceVars

ExpandInit ==
    /\ pc = "expand"
    /\ \E x \in {"tools", "fallback", "llm"}, q \in QueryPool, n \in 1..MaxN :
          /\ impl = (IF x = "tools" THEN "tools" ELSE "main")
          /\ \E g \in (IF x = "llm" THEN Generators
                       ELSE {[mode |-> "absent", lines |-> <<>>]}) :
                req = [expander |-> x, query |-> q, n |-> n, llm |-> g]
    /\ use_mock = FALSE
    /\ queries = <<>>
    /\ qi = 1
    /\ collected = <<>>
    /\ seen = {}
    /\ lookups = <<>>
    /\ CROSS_ENCODER_CACHE = None
    /\ env = NoEnv
    /\ outcome = NoOutcome
    /\ ServiceIdle

ExpandNext == ExpandCall

SpecExpand == ExpandInit /\ [][ExpandNext]_vars

\* C9: for a non-empty query q and n >= 1 the expander returns between 1 and
\* n variants and the first of them is q.
C9_ExpansionBound ==
    pc = "expanded" =>
        /\ Len(queries) >= 1
        /\ Len(queries) <= req.n
        /\ queries[1] = req.query

(***************************************************************************)
(* The search: PineconeSearchTool.search, and the retrieval branch of the  *)
(* /chat handler (generate_llm_variants + retrieve_union)                  *)
(***************************************************************************)
\* n of the expansion: search asks for 3 variants, /chat for 2
TOOLS_VARIANTS_N == 3
CHAT_VARIANTS_N == 2

\* str.lower() on a rerank method name
LowerName(m) == IF m = "NONE" THEN "none" ELSE m

\* self.mock_results as Documents
MockDocs ==
    <<Document(<<"r">>, "Manual de Viagens"), Document(<<"f">>, "Politica de Ferias")>>

\* k = k or RETRIEVAL_K
ResolveK(k) == IF ~IsInt(k) \/ IntOf(k) = 0 THEN RETRIEVAL_K ELSE IntOf(k)

\* PineconeSearchTool.search: rerank_top_k = rerank_top_k or k
ToolsResolveTopK(top_k, k) ==
    IF ~IsInt(top_k) \/ IntOf(top_k) = 0 THEN SomeInt(k) ELSE top_k

\* chat: rerank_top_k = payload.get("rerank_top_k"), RERANK_TOP_K_DEFAULT if None
ChatResolveTopK(top_k) ==
    IF ~IsInt(top_k) THEN SomeInt(RERANK_TOP_K_DEFAULT) ELSE top_k

\* SearchResult(content, metadata, score, rerank_score) of a Document
ToSearchResult(d) ==
    [content |-> ContentOf(d), source |-> d.source,
     rerank_method |-> d.rerank_method, score |-> 0,
     rerank_score |-> d.rerank_score]

ToSearchResults(docs) == [i \in 1..Len(docs) |-> ToSearchResult(docs[i])]

\* PineconeSearchTool.search from the collected documents on: top_k is the
\* resolved rerank_top_k
ToolsSearchTail(query, docs, method, top_k, mock, e) ==
    IF docs = <<>> THEN Returned(<<>>)
    ELSE LET m == LowerName(method)
             r == IF mock THEN Returned(Slice(docs, top_k))
                  ELSE IF m = "cross-encoder"
                  THEN ToolsRerankByCrossEncoder(query, docs, top_k, e)
                  ELSE IF m = "embedding"
                  THEN ToolsRerankByEmbedding(query, docs, top_k, e)
                  ELSE Returned(Slice(docs, top_k))
         IN IF r.raised THEN r ELSE [r EXCEPT !.docs = ToSearchResults(r.docs)]

\* a mutant: the "none" branch returns everything collected
MainNoneBranchNoCut(docs, k, top_k) == docs

\* retrieve_union, rerank_method == "none"
MainNoneBranch(docs, k, top_k) ==
    LET final_top_k == IF IsInt(top_k) /\ IntOf(top_k) # 0 THEN IntOf(top_k) ELSE k
    IN IF final_top_k # 0 /\ Len(docs) > final_top_k
       THEN Slice(docs, SomeInt(final_top_k)) ELSE docs

\* main.retrieve_union from the collected documents on
MainRetrieveUnionTail(qs, docs, k, method, top_k, e, cache) ==
    LET m == LowerName(method)
        q0 == IF qs # <<>> THEN qs[1] ELSE <<>>
    IN IF m = "none"
       THEN [Returned(MainNoneBranch(docs, k, top_k)) EXCEPT !.cache = cache]
       ELSE IF m = "embedding"
       THEN [MainRerankByEmbedding(q0, docs, top_k, e) EXCEPT !.cache = cache]
       ELSE IF m = "cross-encoder"
       THEN MainRerankByCrossEncoder(q0, docs, top_k, e, cache)
       ELSE [Returned(IF IsInt(top_k) /\ IntOf(top_k) # 0
                      THEN Slice(docs, top_k) ELSE docs) EXCEPT !.cache = cache]

\* the search from the collected documents on, for a rerank_top_k as given
\* by the caller
SearchTail(i, mock, query, qs, docs, k, method, given_top_k, e, cache) ==
    IF i = "main"
    THEN MainRetrieveUnionTail(qs, docs, k, method, ChatResolveTopK(given_top_k),
                               e, cache)
    ELSE [ToolsSearchTail(query, docs, method, ToolsResolveTopK(given_top_k, k),
                          mock, e) EXCEPT !.cache = cache]

\* the scorer behaviours that make a difference to a search
EnvsFor(i, mock, docs, method) ==
    IF docs = <<>> \/ mock \/ LowerName(method) \notin {"embedding", "cross-encoder"}
    THEN {NoEnv}
    ELSE IF LowerName(method) = "embedding" \/ i = "tools" THEN EmbeddingEnvs
    ELSE CrossEncoderEnvs

\* the generators of the /chat path
ChatGenerators ==
    {[mode |-> "absent", lines |-> <<>>],
     [mode |-> "ok", lines |-> <<<<"b">>>>],
     [mode |-> "ok", lines |-> <<<<"b">>, <<"a", "B">>>>]}

\* entry of the search: defaults resolved, query expanded, retriever built
\* (as_retriever only wraps the vector store) or, in mock mode, the mock
\* corpus taken as the collection
SearchBegin ==
    /\ pc = "start"
    /\ \E g \in (IF impl = "main" THEN ChatGenerators
                 ELSE {[mode |-> "absent", lines |-> <<>>]}) :
          queries' = IF impl = "main"
                     THEN MainGenerateLlmVariants(req.query, CHAT_VARIANTS_N, g)
                     ELSE ToolsGenerateQueryVariants(req.query, TOOLS_VARIANTS_N)
    /\ req' = [req EXCEPT !.k = ResolveK(req.given_k)]
    /\ collected' = IF use_mock THEN MockDocs ELSE <<>>
    /\ pc' = IF use_mock THEN "collected" ELSE "retrieving"
    /\ UNCHANGED <<impl, use_mock, qi, seen, lookups, CROSS_ENCODER_CACHE, env,
                   outcome>>
    /\ UNCHANGED serviceVars

SearchLookupStep == RetrieveLookup(FALSE)

\* the rest of the search once the collection is known
SearchFinish ==
    /\ pc = "collected"
    /\ \E e \in EnvsFor(impl, use_mock, collected, req.method) :
          LET o == SearchTail(impl, use_mock, req.query, queries, collected, req.k,
                              req.method, req.given_top_k, e, CROSS_ENCODER_CACHE)
          IN /\ env' = e
             /\ outcome' = o
             /\ CROSS_ENCODER_CACHE' = o.cache
    /\ pc' = "done"
    /\ UNCHANGED <<impl, use_mock, req, queries, qi, collected, seen, lookups>>
    /\ UNCHANGED serviceVars

Methods == {"NONE", "embedding", "cross-encoder", "cross_encoder"}
GivenTopKs == {NoInt} \cup {SomeInt(n) : n \in (0 - 1)..MaxTopK}
GivenKs == {NoInt, SomeInt(1)}

SearchInit ==
    /\ impl \in {"main", "tools"}
    /\ use_mock \in (IF impl = "tools" THEN BOOLEAN ELSE {FALSE})
    /\ pc = "start"
    /\ \E m \in Methods, t \in GivenTopKs, gk \in GivenKs :
          req = [query |-> TheQuery, given_k |-> gk, k |-> 0, method |-> m,
                 given_top_k |-> t]
    /\ queries = <<>>
    /\ qi = 1
    /\ collected = <<>>
    /\ seen = {}
    /\ lookups = <<>>
    /\ CROSS_ENCODER_CACHE = None
    /\ env = NoEnv
    /\ outcome = NoOutcome
    /\ ServiceIdle

SearchNext == SearchBegin \/ SearchLookupStep \/ RetrieveDone \/ SearchFinish

SpecSearch == SearchInit /\ [][SearchNext]_vars

\* the search ran to its end
SearchFinished == pc = "done"

\* the text and source of each passage of a result, in order
Passages(docs) ==
    [p \in 1..Len(docs) |->
        <<IF impl = "main" THEN docs[p].page_content ELSE docs[p].content,
          docs[p].source>>]

\* the first m passages of the collection
FirstCollected(m) == [p \in 1..m |-> <<collected[p].page_content, collected[p].source>>]

\* C4: no exception escapes PineconeSearchTool.search, whatever fails.
C4_SearchNeverRaises ==
    impl = "tools" => ~outcome.raised

\* C5: a search whose rerank_top_k is omitted, zero or negative returns what
\* the same search returns with rerank_top_k = k, for every rerank method.
C5_TopKResolution ==
    (SearchFinished /\ (~IsInt(req.given_top_k) \/ IntOf(req.given_top_k) <= 0)) =>
        LET o == SearchTail(impl, use_mock, req.query, queries, collected, req.k,
                            req.method, SomeInt(req.k), env, None)
        IN outcome.raised = o.raised /\ outcome.docs = o.docs

\* C6 as stated: with rerank method none and rerank_top_k = m, for every
\* m <= len(collected), the search returns exactly the first m collected
\* passages in collection order.
C6_NoneFirstM_AnyM ==
    (/\ SearchFinished
     /\ LowerName(req.method) = "none"
     /\ IsInt(req.given_top_k)
     /\ IntOf(req.given_top_k) <= Len(collected)) =>
        /\ ~outcome.raised
        /\ Passages(outcome.docs) = FirstCollected(IntOf(req.given_top_k))

\* C6 amended: the same for every m with 1 <= m <= len(collected).
C6_NoneFirstM ==
    (/\ SearchFinished
     /\ LowerName(req.method) = "none"
     /\ IsInt(req.given_top_k)
     /\ IntOf(req.given_top_k) >= 1
     /\ IntOf(req.given_top_k) <= Len(collected)) =>
        /\ ~outcome.raised
        /\ Passages(outcome.docs) = FirstCollected(IntOf(req.given_top_k))

\* two passages were collected from the index and rerank_top_k = 1 cut the
\* result to the first of them
C6_Witness ==
    /\ SearchFinished
    /\ ~use_mock
    /\ LowerName(req.method) = "none"
    /\ req.given_top_k = SomeInt(1)
    /\ Len(collected) = 2
    /\ Len(outcome.docs) = 1

\* C7: when union retrieval collects nothing, the search returns the empty
\* sequence for every rerank method and calls no scorer, the construction of
\* the cross-encoder included.
C7_EmptyShortCircuit ==
    (SearchFinished /\ collected = <<>>) =>
        /\ ~outcome.raised
        /\ outcome.docs = <<>>
        /\ outcome.embed_calls = 0
        /\ outcome.ce_constructs = 0
        /\ outcome.ce_predicts = 0

\* every lookup of a cross-encoder search came back empty or raised
C7_Witness ==
    /\ SearchFinished
    /\ collected = <<>>
    /\ Len(queries) >= 2
    /\ req.method = "cross-encoder"
    /\ impl = "main"

\* the strategy a finished search applied, by the scorer that produced the
\* ranking
AppliedStrategy ==
    IF outcome.ce_predicts > 0 THEN "cross-encoder"
    ELSE IF outcome.embed_calls > 0 THEN "embedding"
    ELSE "none"

\* C8: with at least one passage collected and working scorers, each selector
\* value reaches its own strategy: cross-encoder the cross-encoder ranking,
\* embedding the embedding ranking, none plain truncation.
C8_MethodDispatch ==
    (/\ SearchFinished
     /\ collected # <<>>
     /\ ~use_mock
     /\ env.ce = "ok" /\ ~env.embed_raises
     /\ LowerName(req.method) \in {"none", "embedding", "cross-encoder"}) =>
        /\ ~outcome.raised
        /\ AppliedStrategy = LowerName(req.method)

(***************************************************************************)
(* Intent classification: QuestionRouter.classify (question_router.py) and *)
(* route_question (router.py).  The text of a model answer is a sequence   *)
(* of tokens: a token is a blank, a punctuation mark or an indivisible     *)
(* word.                                                                   *)
(***************************************************************************)
\* question_router.QuestionType: the closed set of labels
QuestionType ==
    {"greeting", "clarification_needed", "internal_docs", "general_knowledge",
     "farewell"}

\* question_router.classify: valid_types
valid_types ==
    {"greeting", "farewell", "clarification_needed", "internal_docs",
     "general_knowledge"}

\* router.ALLOWED_CLASSES
ALLOWED_CLASSES ==
    {"clarify", "general_knowledge", "internal_docs_with_rag", "greeting",
     "farewell"}

\* router.FALLBACK_RESULT["classification"]
FALLBACK_RESULT == "clarify"

\* the tokens a model answer is made of
AnswerTokens ==
    {" ", "!", "greeting", "GREETING", "internal_docs", "clarify", "maybe"}

\* str.lower() on a token
LowerToken(c) == IF c = "GREETING" THEN "greeting" ELSE LowerChar(c)
LowerText(s) == [i \in 1..Len(s) |-> LowerToken(s[i])]

\* re.sub(r"[^a-z_]", "", text): blanks and punctuation go, lower-case words stay
RECURSIVE SubNonLabelChars(_)
SubNonLabelChars(s) ==
    IF s = <<>> THEN <<>>
    ELSE IF Head(s) \in {" ", "!", "GREETING"} THEN SubNonLabelChars(Tail(s))
    ELSE <<Head(s)>> \o SubNonLabelChars(Tail(s))

\* text in words: the text is exactly one of the words
TextIn(s, words) == Len(s) = 1 /\ s[1] \in words

\* What the classifying model does with one call.  mode: the call raises or
\* answers; is_str: the answer's content is a str; text: that str; json:
\* what json.loads makes of it (not JSON, JSON that is no object, an object);
\* has_class: the object has a "classification" key, whose value prints as
\* class_text.
ModelBehaviours ==
    {[mode |-> "raises", is_str |-> TRUE, text |-> <<>>, json |-> "invalid",
      has_class |-> FALSE]}
    \cup {[mode |-> "ok", is_str |-> FALSE, text |-> <<>>, json |-> "invalid",
           has_class |-> FALSE]}
    \cup {[mode |-> "ok", is_str |-> TRUE, text |-> t, json |-> j,
           has_class |-> h] :
            t \in SeqsUpTo(AnswerTokens, MaxTokens),
            j \in {"invalid", "not_object", "object"}, h \in BOOLEAN}

Classified(label) == [raised |-> FALSE, label |-> label]
ClassifyEscaped == [raised |-> TRUE, label |-> None]

\* question_router.QuestionRouter.classify: everything from the model call
\* on is inside the try
QuestionRouterClassify(m) ==
    IF m.mode = "raises" \/ ~m.is_str THEN Classified("clarification_needed")
    ELSE LET classification == LowerText(Strip(m.text))
         IN  IF ~TextIn(classification, valid_types)
             THEN Classified("clarification_needed")
             ELSE Classified(classification[1])

\* router.route_question: the model call is before the try; the text of the
\* "classification" key is m.text
RouteQuestion(m) ==
    IF m.mode = "raises" THEN ClassifyEscaped
    ELSE IF ~m.is_str \/ m.json # "object" THEN Classified(FALLBACK_RESULT)
    ELSE LET classification ==
                 SubNonLabelChars(LowerText(Strip(
                     IF m.has_class THEN m.text ELSE <<>>)))
         IN  IF TextIn(classification, ALLOWED_CLASSES)
             THEN Classified(classification[1])
             ELSE Classified(FALLBACK_RESULT)

\* one classification
ClassifyCall ==
    /\ pc = "classify"
    /\ outcome' = (IF impl = "question_router"
                   THEN QuestionRouterClassify(req.model)
                   ELSE RouteQuestion(req.model))
    /\ pc' = "classified"
    /\ UNCHANGED <<impl, use_mock, req, queries, qi, collected, seen, lookups,
                   CROSS_ENCODER_CACHE, env>>
    /\ UNCHANGED serviceVars

RouterInit ==
    /\ pc = "classify"
    /\ impl \in {"question_router", "router"}
    /\ \E m \in ModelBehaviours : req = [model |-> m]
    /\ use_mock = FALSE
    /\ queries = <<>>
    /\ qi = 1
    /\ collected = <<>>
    /\ seen = {}
    /\ lookups = <<>>
    /\ CROSS_ENCODER_CACHE = None
    /\ env = NoEnv
    /\ outcome = NoOutcome
    /\ ServiceIdle

RouterNext == ClassifyCall

SpecRouter == RouterInit /\ [][RouterNext]_vars

\* the model failed to name a label: it raised, or answered something that
\* is not one of the labels
ModelFailed(m) ==
    \/ m.mode = "raises"
    \/ ~m.is_str
    \/ ~TextIn(LowerText(Strip(m.text)), QuestionType)

\* C11: classification never raises and returns exactly one label of the
\* closed set {greeting, farewell, clarification_needed, internal_docs,
\* general_knowledge}; whenever the model call raises or the answer is no
\* label (outside the set, malformed, not a string) the label returned is
\* clarification_needed.
C11_ClassifierTotal ==
    pc = "classified" =>
        /\ ~outcome.raised
        /\ outcome.label \in QuestionType
        /\ ModelFailed(req.model) => outcome.label = "clarification_needed"

\* the part of C11 that QuestionRouter.classify keeps
C11_QuestionRouterTotal ==
    (pc = "classified" /\ impl = "question_router") =>
        /\ ~outcome.raised
        /\ outcome.label \in QuestionType
        /\ ModelFailed(req.model) => outcome.label = "clarification_needed"

(***************************************************************************)
(* The session store of main.py (memory_store and its functions) and the   *)
(* /chat and /clear handlers.  One tick of the clock is 1200 seconds.      *)
(***************************************************************************)
\* main.TTL_SETUP default (1200 seconds), in ticks
TTL_SETUP == 1

\* the clock runs for two lifetimes of an entry
MaxClock == 2 * TTL_SETUP

\* the request threads of the service
Threads == {1, 2}

\* the values MAX_HISTORY is configured with: none kept, a turn cut in
\* two, two whole turns
MaxHistoryValues == {0, 1, 4}
Sessions == {"s1", "s2"}

\* dict operations on memory_store; dict.get answers <<>> or <<entry>>
DictGet(store, s) == IF s \in DOMAIN store THEN <<store[s]>> ELSE <<>>
DictSet(store, s, e) ==
    [x \in DOMAIN store \cup {s} |-> IF x = s THEN e ELSE store[x]]
DictPop(store, s) == [x \in DOMAIN store \ {s} |-> store[x]]

\* a mutant: an entry lives through the tick it expires at
IsExpiredLate(entry, t) == entry.expires_at < t

\* main._is_expired (a stored entry is never the empty dict)
IsExpired(entry, t) == entry.expires_at <= t

\* {"messages": ..., "expires_at": _now() + ttl}
Entry(messages, t) == [messages |-> messages, expires_at |-> t + TTL_SETUP]

\* main._ensure_entry: the store after the call
EnsureEntry(store, s, t) ==
    IF s \notin DOMAIN store \/ IsExpired(store[s], t)
    THEN DictSet(store, s, Entry(<<>>, t))
    ELSE store

\* main.get_memory
GetMemory(store, s, t) ==
    [store |-> EnsureEntry(store, s, t),
     messages |-> EnsureEntry(store, s, t)[s].messages]

\* a mutant: the entry is reported but left in the store
ClearMemoryKeep(store, s) ==
    [store |-> store, removed |-> s \in DOMAIN store]

\* main.clear_memory
ClearMemory(store, s) ==
    [store |-> DictPop(store, s), removed |-> s \in DOMAIN store]

\* main.save_memory
SaveMemory(store, s, messages, t) == DictSet(store, s, Entry(messages, t))

\* main.load_memory
LoadMemory(store, s, t) ==
    IF s \notin DOMAIN store THEN [store |-> store, messages |-> <<>>]
    ELSE IF IsExpired(store[s], t)
    THEN [store |-> DictPop(store, s), messages |-> <<>>]
    ELSE [store |-> store, messages |-> store[s].messages]

\* Python's s[start:]
SliceFrom(s, start) ==
    LET from == IF start < 0 THEN (IF Len(s) + start < 0 THEN 0
                                   ELSE Len(s) + start)
                ELSE start
    IN  SubSeq(s, from + 1, Len(s))

\* main.update_memory: messages[-MAX_HISTORY:], saved
UpdateMemory(store, s, messages, t, maxh) ==
    SaveMemory(store, s, SliceFrom(messages, 0 - maxh), t)

\* the two messages a turn adds
UserMessage(turn) == [role |-> "user", turn |-> turn]
AiMessage(turn) == [role |-> "ai", turn |-> turn]

\* A /chat request.  body: a JSON object, a non-empty JSON array, or no JSON
\* at all; question, message: the key is absent, "" , blanks, or a text;
\* header_sid, body_sid: the session id given (None: not given);
\* rerank_method: absent, a text, or a non-zero number.
ChatRequests ==
    {[body |-> "not_json", question |-> "absent", message |-> "absent",
      header_sid |-> None, body_sid |-> None, rerank_method |-> "absent"],
     [body |-> "array", question |-> "absent", message |-> "absent",
      header_sid |-> "s1", body_sid |-> None, rerank_method |-> "absent"]}
    \cup [body : {"object"},
          question : {"absent", "empty", "blank", "text"},
          message : {"absent", "text"},
          header_sid : {None, "s1"},
          body_sid : {None, "s1", "s2"},
          rerank_method : {"absent", "text", "number"}]

\* the few requests the store is exercised with
PlainRequests ==
    {r \in ChatRequests :
        /\ r.body = "object" /\ r.rerank_method = "absent"
        /\ r.message = "absent" /\ r.question \in {"absent", "text"}
        /\ r.header_sid = None}

\* (payload.get("question") or payload.get("message") or "").strip()
QuestionOf(r) ==
    LET first == IF r.question \in {"absent", "empty"} THEN r.message
                 ELSE r.question
    IN  IF first = "text" THEN "text" ELSE "absent"

\* request.headers.get("X-Session-Id", "") or payload.get("session_id", "")
SessionIdOf(r) == IF r.header_sid # None THEN r.header_sid ELSE r.body_sid

\* chat, lines 488-499: the status answered at once (0: the request goes on)
ChatValidate(r) ==
    IF r.body # "object" THEN 500
    ELSE IF r.rerank_method = "number" THEN 500
    ELSE IF SessionIdOf(r) = None THEN 400
    ELSE IF QuestionOf(r) = "absent" THEN 400
    ELSE 0

NoResponse ==
    [op |-> "none", sid |-> None, status |-> 0, at |-> 0, before |-> <<>>,
     after |-> <<>>, returned |-> <<>>, req |-> <<>>, calls |-> {}]

IdleHandler == [pc |-> "idle", sid |-> None, messages |-> <<>>, turn |-> 0]

\* chat, lines 488-502: parse, validate, load_memory
ChatReceive(t, rs) ==
    /\ handlers[t].pc = "idle"
    /\ requests < MaxRequests
    /\ \E r \in rs :
        IF ChatValidate(r) # 0
        THEN /\ response' = [NoResponse EXCEPT !.op = "chat",
                                !.sid = SessionIdOf(r),
                                !.status = ChatValidate(r), !.at = now,
                                !.req = <<r>>]
             /\ UNCHANGED <<memory_store, handlers, requests, turns>>
        ELSE LET s == SessionIdOf(r)
                 loaded == LoadMemory(memory_store, s, now)
             IN  /\ memory_store' = loaded.store
                 /\ handlers' = [handlers EXCEPT ![t] =
                        [pc |-> "loaded", sid |-> s,
                         messages |-> loaded.messages,
                         turn |-> requests + 1]]
                 /\ requests' = requests + 1
                 /\ turns' = IF s \in DOMAIN loaded.store THEN turns
                             ELSE [turns EXCEPT ![s] = <<>>]
                 /\ response' = [NoResponse EXCEPT !.op = "load", !.sid = s,
                                    !.at = now, !.req = <<r>>,
                                    !.before = DictGet(memory_store, s),
                                    !.after = DictGet(loaded.store, s),
                                    !.returned = loaded.messages]
    /\ UNCHANGED <<now, MAX_HISTORY, pinecone_tool, constructed,
                   PINECONE_API_KEY, conversations>>
    /\ UNCHANGED pipelineVars

\* how the rest of the handler ends: it responds; or the classifier, the
\* retrieval or the model raises (before update_memory); or building the
\* response raises (serialize_sources, extract_gen_usage, jsonify: after
\* update_memory, inside the same try)
ChatOutcomes == {"responds", "raises_before_update", "raises_after_update"}

\* chat, lines 504-596: classify, answer (with retrieval on the RAG path),
\* update_memory, respond; any exception is answered with 500
ChatFinish(t) ==
    /\ handlers[t].pc = "loaded"
    /\ LET h == handlers[t]
           turn == <<UserMessage(h.turn), AiMessage(h.turn)>>
           calls == {"classifier", "generation"}
       IN  \E out \in ChatOutcomes :
             IF out = "raises_before_update"
             THEN /\ response' = [NoResponse EXCEPT !.op = "chat",
                                     !.sid = h.sid, !.status = 500,
                                     !.calls = calls]
                  /\ UNCHANGED <<memory_store, turns>>
             ELSE /\ memory_store' =
                        UpdateMemory(memory_store, h.sid, h.messages \o turn,
                                     now, MAX_HISTORY)
                  /\ turns' = [turns EXCEPT ![h.sid] = @ \o turn]
                  /\ response' = [NoResponse EXCEPT !.op = "chat",
                                     !.sid = h.sid,
                                     !.status = IF out = "responds" THEN 200
                                                ELSE 500,
                                     !.calls = calls \cup {"update_memory"}]
    /\ handlers' = [handlers EXCEPT ![t] = IdleHandler]
    /\ UNCHANGED <<now, MAX_HISTORY, requests, pinecone_tool, constructed,
                   PINECONE_API_KEY, conversations>>
    /\ UNCHANGED pipelineVars

\* POST /clear, lines 599-612 (s = None: no session id given)
Clear(s) ==
    /\ IF s = None
       THEN /\ response' = [NoResponse EXCEPT !.op = "clear", !.status = 400,
                               !.at = now]
            /\ UNCHANGED <<memory_store, turns>>
       ELSE LET c == ClearMemory(memory_store, s)
            IN  /\ memory_store' = c.store
                /\ turns' = [turns EXCEPT ![s] = <<>>]
                /\ response' = [NoResponse EXCEPT !.op = "clear", !.sid = s,
                                   !.status = IF c.removed THEN 200 ELSE 404,
                                   !.at = now,
                                   !.before = DictGet(memory_store, s),
                                   !.after = DictGet(c.store, s)]
    /\ UNCHANGED <<now, MAX_HISTORY, handlers, requests, pinecone_tool,
                   constructed, PINECONE_API_KEY, conversations>>
    /\ UNCHANGED pipelineVars

\* a call of get_memory
GetMemoryCall(s) ==
    /\ LET g == GetMemory(memory_store, s, now)
       IN  /\ memory_store' = g.store
           /\ turns' = IF g.store = memory_store THEN turns
                       ELSE [turns EXCEPT ![s] = <<>>]
           /\ response' = [NoResponse EXCEPT !.op = "get", !.sid = s,
                              !.at = now,
                              !.before = DictGet(memory_store, s),
                              !.after = DictGet(g.store, s),
                              !.returned = g.messages]
    /\ UNCHANGED <<now, MAX_HISTORY, handlers, requests, pinecone_tool,
                   constructed, PINECONE_API_KEY, conversations>>
    /\ UNCHANGED pipelineVars

\* time.time() advances
Tick ==
    /\ now < MaxClock
    /\ now' = now + 1
    /\ UNCHANGED <<memory_store, MAX_HISTORY, handlers, response, turns,
                   requests, pinecone_tool, constructed, PINECONE_API_KEY,
                   conversations>>
    /\ UNCHANGED pipelineVars

PipelineIdle ==
    /\ impl = "main"
    /\ use_mock = FALSE
    /\ pc = "idle"
    /\ req = <<>>
    /\ queries = <<>>
    /\ qi = 1
    /\ collected = <<>>
    /\ seen = {}
    /\ lookups = <<>>
    /\ CROSS_ENCODER_CACHE = None
    /\ env = NoEnv
    /\ outcome = NoOutcome

SessionInit ==
    /\ PipelineIdle
    /\ memory_store = <<>>
    /\ now = 0
    /\ MAX_HISTORY \in MaxHistoryValues
    /\ handlers = [t \in Threads |-> IdleHandler]
    /\ response = NoResponse
    /\ turns = [s \in Sessions |-> <<>>]
    /\ requests = 0
    /\ pinecone_tool = None
    /\ constructed = 0
    /\ PINECONE_API_KEY = TRUE
    /\ conversations = <<>>

SessionChatReceive == \E t \in Threads : ChatReceive(t, PlainRequests)
SessionChatFinish == \E t \in Threads : ChatFinish(t)
SessionClear == \E s \in Sessions \cup {None} : Clear(s)
SessionGetMemory == \E s \in Sessions : GetMemoryCall(s)

SessionNext ==
    \/ SessionChatReceive
    \/ SessionChatFinish
    \/ SessionClear
    \/ SessionGetMemory
    \/ Tick

SpecSession == SessionInit /\ [][SessionNext]_vars

\* the last access was a /clear for a session id
Cleared(s) == response.op = "clear" /\ response.sid = s

\* C13: /clear answers 200 exactly when an entry of the session was removed
\* and 404 when there was none, and leaves no entry for the session; the
\* next access of that session, if it is a load, reads an empty history
\* and, if it is another /clear, is answered 404.
C13_ClearStatus ==
    /\ [](\A s \in Sessions : Cleared(s) =>
            /\ response.status = 200 <=> response.before # <<>>
            /\ response.status = 404 <=> response.before = <<>>
            /\ response.after = <<>>)
    /\ [][\A s \in Sessions :
            (Cleared(s) /\ now' = now /\ response'.sid = s) =>
                /\ s \notin DOMAIN memory_store
                /\ response'.op = "load" => response'.returned = <<>>
                /\ response'.op = "clear" => response'.status = 404]_vars

\* a /clear removed an entry that held messages
C13_Witness ==
    /\ response.op = "clear"
    /\ response.status = 200
    /\ response.before # <<>>
    /\ response.before[1].messages # <<>>
    /\ response.sid \notin DOMAIN memory_store

\* the last access was a read of the store that met an entry at or past its
\* expires_at
ReadExpired ==
    /\ response.op \in {"load", "get"}
    /\ response.before # <<>>
    /\ response.before[1].expires_at <= response.at

IsSuffix(s, t) ==
    Len(s) <= Len(t) /\ s = SubSeq(t, Len(t) - Len(s) + 1, Len(t))

\* the last n elements of t (all of t when it has fewer)
LastN(t, n) == SubSeq(t, (IF Len(t) > n THEN Len(t) - n ELSE 0) + 1, Len(t))

\* C15: for every MAX_HISTORY >= 0 the list stored for a session has at
\* most MAX_HISTORY messages, and they are the most recent messages of the
\* session in their order.
C15_BoundedHistory ==
    \A s \in DOMAIN memory_store :
        /\ Len(memory_store[s].messages) <= MAX_HISTORY
        /\ IsSuffix(memory_store[s].messages, turns[s])

\* no request for session s is between its load_memory and its update_memory
Quiet(s) == \A t \in Threads : handlers[t].sid # s

\* C16: once the /chat requests of a session have completed, however they
\* interleaved, the stored history holds the messages of all of them, up to
\* the MAX_HISTORY bound: no completed turn is lost.
C16_NoLostTurn ==
    \A s \in DOMAIN memory_store :
        Quiet(s) =>
            \A i \in 1..Len(LastN(turns[s], MAX_HISTORY)) :
                InSeq(LastN(turns[s], MAX_HISTORY)[i], memory_store[s].messages)

(***************************************************************************)
(* /chat alone, with every shape of request                                *)
(***************************************************************************)
InputChatReceive == \E t \in Threads : ChatReceive(t, ChatRequests)

ChatInputNext == InputChatReceive \/ SessionChatFinish

SpecChatInput == SessionInit /\ [][ChatInputNext]_vars

\* the body carries no non-blank question or message
NoQuestion(r) ==
    \/ r.body # "object"
    \/ r.question \in {"absent", "empty", "blank"} /\ r.message = "absent"

\* the session id is in neither the header nor the body
NoSession(r) == r.header_sid = None /\ r.body_sid = None

\* C12: a /chat request without a non-blank question/message, or without a
\* session id in header and body, is answered 400 (never 200 or 500)
\* whatever its other fields hold, and no classifier, retrieval or
\* generation call is made for it.
C12_ChatValidation ==
    (response.req # <<>>
     /\ (NoQuestion(response.req[1]) \/ NoSession(response.req[1]))) =>
        /\ response.op = "chat"
        /\ response.status = 400
        /\ response.calls = {}

\* what /chat keeps of C12: such a request is never accepted and no model or
\* retrieval call is made for it
C12_ChatRejected ==
    (response.req # <<>>
     /\ (NoQuestion(response.req[1]) \/ NoSession(response.req[1]))) =>
        /\ response.op = "chat"
        /\ response.status \in {400, 500}
        /\ response.calls = {}

(***************************************************************************)
(* Context formatting: format_results_for_context of PineconeSearchTool    *)
(* (tools.py) and of DocumentSearcher (document_search.py).  The string    *)
(* returned is the sequence of the lines joined.                           *)
(***************************************************************************)
\* "Nenhum documento relevante encontrado."
Sentinel == <<[kind |-> "sentinel"]>>

\* SearchResult.formatted_source (the page suffix is left out)
FormattedSource(result) ==
    IF result.source = None THEN "Documento Interno" ELSE result.source

\* the lines of one document block; tools.py adds the relevance line only
\* for a rerank score that is neither None nor 0
FormatBlock(i, n, result) ==
    <<[kind |-> "label", n |-> n, source |-> FormattedSource(result)]>>
    \o (IF i = "document_search"
           \/ (IsInt(result.rerank_score) /\ IntOf(result.rerank_score) # 0)
        THEN <<[kind |-> "relevance"]>> ELSE <<>>)
    \o <<[kind |-> "content", text |-> result.content],
         [kind |-> "delimiter"]>>

RECURSIVE FormatBlocks(_, _, _)
FormatBlocks(i, shown, n) ==
    IF n > Len(shown) THEN <<>>
    ELSE FormatBlock(i, n, shown[n]) \o FormatBlocks(i, shown, n + 1)

\* a mutant: max_results is ignored
FormatResultsForContextAll(i, results, max_results) ==
    IF results = <<>> THEN Sentinel
    ELSE <<[kind |-> "header"]>> \o FormatBlocks(i, results, 1)

\* format_results_for_context(results, max_results)
FormatResultsForContext(i, results, max_results) ==
    IF results = <<>> THEN Sentinel
    ELSE <<[kind |-> "header"]>>
         \o FormatBlocks(i, Slice(results, SomeInt(max_results)), 1)

\* the result lists formatted: what a search returns
ResultLists ==
    {ToSearchResults(ds) : ds \in SeqsUpTo(IndexDocs, MaxPassages)}
    \cup {ToSearchResults(<<Annotate(d, sc, "embedding")>>) :
             d \in IndexDocs, sc \in {0, 4}}

FormatCall ==
    /\ pc = "format"
    /\ outcome' = [text |-> FormatResultsForContext(impl, req.results,
                                                    req.max_results)]
    /\ pc' = "formatted"
    /\ UNCHANGED <<impl, use_mock, req, queries, qi, collected, seen, lookups,
                   CROSS_ENCODER_CACHE, env>>
    /\ UNCHANGED serviceVars

FormatInit ==
    /\ pc = "format"
    /\ impl \in {"tools", "document_search"}
    /\ \E rs \in ResultLists, m \in 0..MaxPassages :
          req = [results |-> rs, max_results |-> m]
    /\ use_mock = FALSE
    /\ queries = <<>>
    /\ qi = 1
    /\ collected = <<>>
    /\ seen = {}
    /\ lookups = <<>>
    /\ CROSS_ENCODER_CACHE = None
    /\ env = NoEnv
    /\ outcome = NoOutcome
    /\ ServiceIdle

FormatNext == FormatCall

SpecFormat == FormatInit /\ [][FormatNext]_vars

\* the positions of the label lines of a text, in order
RECURSIVE LabelLines(_, _)
LabelLines(text, from) ==
    IF from > Len(text) THEN <<>>
    ELSE (IF text[from].kind = "label" THEN <<from>> ELSE <<>>)
         \o LabelLines(text, from + 1)

\* the block that starts at line p is that of result r, numbered n: its
\* label line, then (after at most a relevance line) the full text, then a
\* delimiter line
IsBlockOf(text, p, n, r) ==
    /\ text[p].n = n
    /\ text[p].source = FormattedSource(r)
    /\ \E c \in {p + 1, p + 2} :
          /\ c + 1 <= Len(text)
          /\ text[c] = [kind |-> "content", text |-> r.content]
          /\ text[c + 1].kind = "delimiter"
          /\ c = p + 2 => text[p + 1].kind = "relevance"

\* C20: format_results_for_context returns the sentinel if and only if the
\* result list is empty; for a non-empty list and max_results >= 1 it emits
\* exactly min(max_results, len(results)) document blocks, labelled 1, 2, ...
\* in result order, each with the result's source label and full text
\* followed by a delimiter line.
C20_ContextFormat ==
    pc = "formatted" =>
        /\ outcome.text = Sentinel <=> req.results = <<>>
        /\ (req.results # <<>> /\ req.max_results >= 1) =>
             LET labels == LabelLines(outcome.text, 1)
             IN  /\ Len(labels) = Min(req.max_results, Len(req.results))
                 /\ \A n \in 1..Len(labels) :
                       IsBlockOf(outcome.text, labels[n], n, req.results[n])

\* two of three results were formatted
C20_Witness ==
    /\ pc = "formatted"
    /\ Len(req.results) = 3
    /\ req.max_results = 2
    /\ Len(LabelLines(outcome.text, 1)) = 2

(***************************************************************************)
(* IntelligentAgent.process_question (agent.py).  The classifier and the   *)
(* search tool are its collaborators: the label and the search outcome are *)
(* inputs.                                                                 *)
(***************************************************************************)
\* "sources": None, or a list
NoSources == [given |-> FALSE, list |-> <<>>]
SourceList(l) == [given |-> TRUE, list |-> l]

AgentEscaped ==
    [raised |-> TRUE, question_type |-> None, used_tool |-> FALSE,
     sources |-> NoSources, num_docs_found |-> 0, generation_calls |-> 1]

\* _handle_greeting, _handle_farewell, _handle_clarification,
\* _handle_general_knowledge: one generation call, no tool
HandleWithoutTool(label, llm) ==
    IF llm = "raises" THEN AgentEscaped
    ELSE [raised |-> FALSE, question_type |-> label, used_tool |-> FALSE,
          sources |-> NoSources, num_docs_found |-> 0, generation_calls |-> 1]

\* the sources serialised: search_results[:3], ranked from 1
SerializedSources(results) ==
    [i \in 1..Min(3, Len(results)) |->
        [rank |-> i, source |-> FormattedSource(results[i]),
         content_preview |-> results[i].content]]

\* a mutant: the answer is generated even when nothing was found
HandleInternalDocsAlways(search, llm) ==
    IF search.raised THEN [AgentEscaped EXCEPT !.generation_calls = 0]
    ELSE IF llm = "raises" THEN AgentEscaped
    ELSE [raised |-> FALSE, question_type |-> "internal_docs",
          used_tool |-> TRUE,
          sources |-> SourceList(SerializedSources(search.docs)),
          num_docs_found |-> Len(search.docs), generation_calls |-> 1]

\* IntelligentAgent._handle_internal_docs
HandleInternalDocs(search, llm) ==
    IF search.raised THEN [AgentEscaped EXCEPT !.generation_calls = 0]
    ELSE IF search.docs = <<>>
    THEN [raised |-> FALSE, question_type |-> "internal_docs",
          used_tool |-> TRUE, sources |-> SourceList(<<>>),
          num_docs_found |-> 0, generation_calls |-> 0]
    ELSE IF llm = "raises" THEN AgentEscaped
    ELSE [raised |-> FALSE, question_type |-> "internal_docs",
          used_tool |-> TRUE,
          sources |-> SourceList(SerializedSources(search.docs)),
          num_docs_found |-> Len(search.docs), generation_calls |-> 1]

\* IntelligentAgent.process_question, from the label on
ProcessQuestion(question_type, search, llm) ==
    IF question_type = "greetings" THEN HandleWithoutTool("greetings", llm)
    ELSE IF question_type = "farewell" THEN HandleWithoutTool("farewell", llm)
    ELSE IF question_type = "clarification_needed"
    THEN HandleWithoutTool("clarification_needed", llm)
    ELSE IF question_type = "internal_docs" THEN HandleInternalDocs(search, llm)
    ELSE IF question_type = "general_knowledge"
    THEN HandleWithoutTool("general_knowledge", llm)
    ELSE HandleWithoutTool("clarification_needed", llm)

\* what the search tool answers the agent: it raises, or returns results
SearchOutcomes ==
    {Escaped} \cup {Returned(rs) : rs \in ResultLists}

AgentCall ==
    /\ pc = "ask"
    /\ outcome' = ProcessQuestion(req.question_type, req.search, req.llm)
    /\ pc' = "answered"
    /\ UNCHANGED <<impl, use_mock, req, queries, qi, collected, seen, lookups,
                   CROSS_ENCODER_CACHE, env>>
    /\ UNCHANGED serviceVars

AgentInit ==
    /\ pc = "ask"
    /\ impl = "agent"
    /\ \E qt \in QuestionType \cup {"greetings"}, so \in SearchOutcomes,
          llm \in {"ok", "raises"} :
          req = [question_type |-> qt, search |-> so, llm |-> llm]
    /\ use_mock = FALSE
    /\ queries = <<>>
    /\ qi = 1
    /\ collected = <<>>
    /\ seen = {}
    /\ lookups = <<>>
    /\ CROSS_ENCODER_CACHE = None
    /\ env = NoEnv
    /\ outcome = NoOutcome
    /\ ServiceIdle

AgentNext == AgentCall

SpecAgent == AgentInit /\ [][AgentNext]_vars

\* the utterance was classified internal_docs and the search found nothing
NoDocuments ==
    /\ req.question_type = "internal_docs"
    /\ ~req.search.raised
    /\ req.search.docs = <<>>

\* C19: when the utterance is classified internal_docs and the search
\* returns zero results, process_question answers with used_tool = true,
\* sources = [] and question_type = internal_docs, and the generation model
\* is not invoked.
C19_NoDocuments ==
    (pc = "answered" /\ NoDocuments) =>
        /\ ~outcome.raised
        /\ outcome.used_tool
        /\ outcome.sources = SourceList(<<>>)
        /\ outcome.question_type = "internal_docs"
        /\ outcome.generation_calls = 0

\* nothing was found, and the generation model would have failed if asked
C19_Witness ==
    /\ pc = "answered"
    /\ NoDocuments
    /\ req.llm = "raises"
    /\ outcome.num_docs_found = 0

(***************************************************************************)
(* The lazily built singletons: get_cross_encoder (main.py) and            *)
(* get_pinecone_tool (tools.py), called from the request threads.  A       *)
(* thread may be suspended between the test of the cached instance and     *)
(* the assignment of the instance it built.                                *)
(***************************************************************************)
Singletons == {"cross_encoder", "pinecone_tool"}

\* the instances the constructors hand out, in order of construction
InstanceNames == <<"instance#1", "instance#2", "instance#3">>

CallerThreads == {1, 2, 3}

\* the cached instance of singleton w
Cached(w) == IF w = "cross_encoder" THEN CROSS_ENCODER_CACHE ELSE pinecone_tool

IdleCaller == [pc |-> "idle", w |-> None, got |-> None]

\* `if CROSS_ENCODER_CACHE is None` / `if _pinecone_tool is None`: the test,
\* and the return of the cached instance when there is one
SingletonTest(t, w) ==
    /\ handlers[t].pc = "idle"
    /\ handlers' = [handlers EXCEPT ![t] =
            IF Cached(w) = None
            THEN [pc |-> "constructing", w |-> w, got |-> None]
            ELSE [pc |-> "done", w |-> w, got |-> Cached(w)]]
    /\ UNCHANGED <<memory_store, now, MAX_HISTORY, response, turns,
                   pinecone_tool, constructed, requests, PINECONE_API_KEY,
                   conversations>>
    /\ UNCHANGED pipelineVars

\* `CROSS_ENCODER_CACHE = CrossEncoder(model_name)` /
\* `_pinecone_tool = PineconeSearchTool(...)`, and the return
SingletonConstruct(t) ==
    /\ handlers[t].pc = "constructing"
    /\ LET w == handlers[t].w
           made == InstanceNames[constructed[w] + 1]
       IN  /\ constructed' = [constructed EXCEPT ![w] = @ + 1]
           /\ CROSS_ENCODER_CACHE' =
                 IF w = "cross_encoder" THEN made ELSE CROSS_ENCODER_CACHE
           /\ pinecone_tool' =
                 IF w = "pinecone_tool" THEN made ELSE pinecone_tool
           /\ handlers' = [handlers EXCEPT ![t] =
                 [pc |-> "done", w |-> w, got |-> made]]
    /\ UNCHANGED <<memory_store, now, MAX_HISTORY, response, turns,
                   requests, PINECONE_API_KEY, conversations>>
    /\ UNCHANGED <<impl, use_mock, pc, req, queries, qi, collected, seen,
                   lookups, env, outcome>>

SingletonInit ==
    /\ PipelineIdle
    /\ memory_store = <<>>
    /\ now = 0
    /\ MAX_HISTORY = 0
    /\ handlers = [t \in CallerThreads |-> IdleCaller]
    /\ response = NoResponse
    /\ turns = <<>>
    /\ requests = 0
    /\ pinecone_tool = None
    /\ constructed = [w \in Singletons |-> 0]
    /\ PINECONE_API_KEY = TRUE
    /\ conversations = <<>>

SingletonCall == \E t \in CallerThreads, w \in Singletons : SingletonTest(t, w)
SingletonBuild == \E t \in CallerThreads : SingletonConstruct(t)

SingletonNext == SingletonCall \/ SingletonBuild

SpecSingleton == SingletonInit /\ [][SingletonNext]_vars

\* C17: when several threads call get_cross_encoder (or get_pinecone_tool)
\* while the cached instance is still empty, the constructor runs exactly
\* once and every caller receives the same instance.
C17_ConstructOnce ==
    \A w \in Singletons :
        /\ constructed[w] <= 1
        /\ \A t1, t2 \in CallerThreads :
              (handlers[t1].pc = "done" /\ handlers[t2].pc = "done"
               /\ handlers[t1].w = w /\ handlers[t2].w = w)
              => handlers[t1].got = handlers[t2].got

(***************************************************************************)
(* The search tool over the life of the process: built once by             *)
(* get_pinecone_tool, then asked any number of searches (each search in    *)
(* one step here).                                                         *)
(***************************************************************************)
\* a mutant: the tool never enters mock mode
PineconeSearchToolInitNoMock(key, init_ok) == FALSE

\* PineconeSearchTool.__init__: the value of use_mock it leaves; key: the
\* credential is set; init_ok: building the real client succeeds
PineconeSearchToolInit(key, init_ok) ==
    IF ~key THEN TRUE ELSE ~init_ok

\* get_pinecone_tool, first call: the tool is built and cached
ToolGet ==
    /\ pinecone_tool = None
    /\ \E init_ok \in BOOLEAN :
          use_mock' = PineconeSearchToolInit(PINECONE_API_KEY, init_ok)
    /\ pinecone_tool' = InstanceNames[1]
    /\ constructed' = [constructed EXCEPT !["pinecone_tool"] = @ + 1]
    /\ UNCHANGED <<memory_store, now, MAX_HISTORY, handlers, response,
                   turns, requests, PINECONE_API_KEY, conversations>>
    /\ UNCHANGED <<impl, pc, req, queries, qi, collected, seen, lookups,
                   CROSS_ENCODER_CACHE, env, outcome>>

\* what the index gives a search of the real client to collect
ToolCollections == SeqsUpTo(IndexDocs, 1)

\* the scorers of the real client: they answer, or the embedding fails
ToolEnvs == {NoEnv, [NoEnv EXCEPT !.embed_raises = TRUE]}

\* PineconeSearchTool.search on the cached tool; every query and namespace
\* in mock mode, one query against the real client
ToolSearch ==
    /\ pinecone_tool # None
    /\ requests < MaxRequests
    /\ \E q \in (IF use_mock THEN QueryPool ELSE {TheQuery}),
          ns \in (IF use_mock THEN {None, "ns"} ELSE {None}),
          m \in Methods, t \in GivenTopKs, gk \in GivenKs,
          docs \in (IF use_mock THEN {MockDocs} ELSE ToolCollections) :
          \E e \in EnvsFor("tools", use_mock, docs, m) \cap ToolEnvs :
             /\ req' = [query |-> q, namespace |-> ns, given_k |-> gk,
                        k |-> ResolveK(gk), method |-> m, given_top_k |-> t]
             /\ queries' = ToolsGenerateQueryVariants(q, TOOLS_VARIANTS_N)
             /\ collected' = docs
             /\ env' = e
             /\ outcome' = SearchTail("tools", use_mock, q, queries', docs,
                                      ResolveK(gk), m, t, e, None)
    /\ pc' = "searched"
    /\ requests' = requests + 1
    /\ UNCHANGED <<memory_store, now, MAX_HISTORY, handlers, response,
                   turns, pinecone_tool, constructed, PINECONE_API_KEY,
                   conversations>>
    /\ UNCHANGED <<impl, use_mock, qi, seen, lookups, CROSS_ENCODER_CACHE>>

ToolInit ==
    /\ impl = "tools"
    /\ use_mock = FALSE
    /\ pc = "idle"
    /\ req = <<>>
    /\ queries = <<>>
    /\ qi = 1
    /\ collected = <<>>
    /\ seen = {}
    /\ lookups = <<>>
    /\ CROSS_ENCODER_CACHE = None
    /\ env = NoEnv
    /\ outcome = NoOutcome
    /\ memory_store = <<>>
    /\ now = 0
    /\ MAX_HISTORY = 0
    /\ handlers = <<>>
    /\ response = NoResponse
    /\ turns = <<>>
    /\ requests = 0
    /\ pinecone_tool = None
    /\ constructed = [w \in Singletons |-> 0]
    /\ PINECONE_API_KEY \in BOOLEAN
    /\ conversations = <<>>

ToolNext == ToolGet \/ ToolSearch

SpecTool == ToolInit /\ [][ToolNext]_vars

\* the first n entries of the mock corpus, as results
FirstMock(n) == ToSearchResults(SubSeq(MockDocs, 1, Min(n, Len(MockDocs))))

\* the number of results asked for: rerank_top_k when it is a count, k when
\* it is omitted or 0
AskedTopK(r) ==
    IF IsInt(r.given_top_k) /\ IntOf(r.given_top_k) > 0
    THEN IntOf(r.given_top_k)
    ELSE IF IsInt(r.given_k) /\ IntOf(r.given_k) > 0 THEN IntOf(r.given_k)
    ELSE RETRIEVAL_K

\* C18: without a vector-index credential the tool is built in mock mode
\* and neither the construction nor a search raises; a search asked for
\* rerank_top_k results (a count, or omitted) returns the first rerank_top_k
\* entries of the fixed mock corpus in their order, whatever the query, the
\* namespace and the rerank method; a tool in mock mode stays in mock mode.
C18_MockDegradation ==
    /\ []((~PINECONE_API_KEY /\ pinecone_tool # None) => use_mock)
    /\ []((~PINECONE_API_KEY /\ pc = "searched"
           /\ (IsInt(req.given_top_k) => IntOf(req.given_top_k) >= 0)) =>
             /\ ~outcome.raised
             /\ outcome.docs = FirstMock(AskedTopK(req)))
    /\ [][use_mock => use_mock']_vars

\* the second search of a tool built without credential, asking for one
\* result by embedding rerank in a namespace
C18_Witness ==
    /\ ~PINECONE_API_KEY
    /\ use_mock
    /\ pc = "searched"
    /\ requests = 2
    /\ req.method = "embedding"
    /\ req.namespace = "ns"
    /\ req.given_top_k = SomeInt(1)
    /\ Len(outcome.docs) = 1

(***************************************************************************)
(* Cross-encoder rerank with a working scorer                              *)
(***************************************************************************)
\* the finished call was a cross-encoder rerank of a non-empty list in an
\* environment whose CrossEncoder constructs and predicts without error
CrossEncoderWorks ==
    /\ pc = "done"
    /\ req.method = "cross-encoder"
    /\ collected # <<>>
    /\ env.ce = "ok"

\* the output is the first min(top_k, len) passages by descending
\* cross-encoder score, ties in original order, raw score, cross_encoder
IsCrossEncoderRanking ==
    LET sc == [i \in 1..Len(collected) |-> env.scores[collected[i].page_content]]
        n == Min(IntOf(req.top_k), Len(collected))
    IN /\ ~outcome.raised
       /\ Len(outcome.docs) = n
       /\ \A p \in 1..n : \E i \in 1..Len(collected) :
             /\ Rank(sc, i) = p
             /\ outcome.docs[p].page_content = collected[i].page_content
             /\ outcome.docs[p].source = collected[i].source
             /\ outcome.docs[p].rerank_method = "cross_encoder"
             /\ outcome.docs[p].rerank_score = SomeInt(sc[i])

\* C21: when the cross-encoder scorer is constructed and scores without
\* error, a cross-encoder rerank (main.rerank_by_cross_encoder and
\* PineconeSearchTool._rerank_by_cross_encoder alike) returns the first
\* min(top_k, len) passages by descending cross-encoder score, ties in
\* original order, each with the raw score and rerank_method = cross_encoder.
C21_CrossEncoderRanking == CrossEncoderWorks => IsCrossEncoderRanking

\* the same statement for main.rerank_by_cross_encoder alone
C21_MainCrossEncoderRanking ==
    (CrossEncoderWorks /\ impl = "main") => IsCrossEncoderRanking

\* main ranks three passages with a tie below the third and cuts to two
C21_MainWitness ==
    /\ CrossEncoderWorks
    /\ impl = "main"
    /\ Len(collected) = 3
    /\ req.top_k = SomeInt(2)
    /\ collected[1] # collected[2]
    /\ env.scores[collected[1].page_content] = 4
    /\ env.scores[collected[2].page_content] = 4
    /\ env.scores[collected[3].page_content] = 8
    /\ outcome.docs[2].page_content = collected[1].page_content
    /\ outcome.docs[2].rerank_score = SomeInt(4)

(***************************************************************************)
(* The lazy cross-encoder cache over a sequence of calls                   *)
(***************************************************************************)
MaxCalls == 4
ModelNames == {"ms-marco", "bge"}

\* the module starts with CROSS_ENCODER_CACHE = None; an instance is what one
\* invocation of CrossEncoder(model_name) built
NoInstance == <<>>
Instance(model_name, serial) == <<[model_name |-> model_name, serial |-> serial]>>

\* a mutant: constructs on every call
GetCrossEncoderAlways(cache, model_name, ctor_raises, serial) ==
    IF ctor_raises
    THEN [raised |-> TRUE, cache |-> cache, returned |-> NoInstance, constructs |-> 1]
    ELSE [raised |-> FALSE, cache |-> Instance(model_name, serial),
          returned |-> Instance(model_name, serial), constructs |-> 1]

\* main.get_cross_encoder(model_name): the assignment to the global happens
\* only when CrossEncoder(model_name) returned
GetCrossEncoder(cache, model_name, ctor_raises, serial) ==
    IF cache = NoInstance
    THEN IF ctor_raises
         THEN [raised |-> TRUE, cache |-> cache, returned |-> NoInstance,
               constructs |-> 1]
         ELSE [raised |-> FALSE, cache |-> Instance(model_name, serial),
               returned |-> Instance(model_name, serial), constructs |-> 1]
    ELSE [raised |-> FALSE, cache |-> cache, returned |-> cache, constructs |-> 0]

\* constructor invocations among the recorded calls
Constructions(calls) == Cardinality({n \in 1..Len(calls) : calls[n].constructs = 1})

\* one call of get_cross_encoder; the constructor, if invoked, raises or not
GetCrossEncoderCall ==
    /\ pc = "cache"
    /\ Len(lookups) < MaxCalls
    /\ \E m \in ModelNames, ctor_raises \in BOOLEAN :
          LET g == GetCrossEncoder(CROSS_ENCODER_CACHE, m, ctor_raises,
                                   Constructions(lookups) + 1)
          IN /\ CROSS_ENCODER_CACHE' = g.cache
             /\ lookups' = Append(lookups,
                               [model_name |-> m, raised |-> g.raised,
                                returned |-> g.returned,
                                constructs |-> g.constructs,
                                cache_after |-> g.cache])
    /\ UNCHANGED <<impl, use_mock, pc, req, queries, qi, collected, seen, env,
                   outcome>>
    /\ UNCHANGED serviceVars

ScorerCacheInit ==
    /\ impl = "main"
    /\ use_mock = FALSE
    /\ pc = "cache"
    /\ req = [query |-> TheQuery]
    /\ queries = <<>>
    /\ qi = 1
    /\ collected = <<>>
    /\ seen = {}
    /\ lookups = <<>>
    /\ CROSS_ENCODER_CACHE = NoInstance
    /\ env = NoEnv
    /\ outcome = NoOutcome
    /\ ServiceIdle

ScorerCacheNext == GetCrossEncoderCall

SpecScorerCache == ScorerCacheInit /\ [][ScorerCacheNext]_vars

\* call n constructed successfully
Built(n) == lookups[n].constructs = 1 /\ ~lookups[n].raised

\* C22: over any sequence of get_cross_encoder calls the constructor is
\* invoked on a call if and only if no earlier call constructed
\* successfully; every call after the first successful construction returns
\* that same instance; a construction that raises leaves the cache empty.
C22_LazyScorerCache ==
    pc = "cache" =>
        \A n \in 1..Len(lookups) :
           /\ lookups[n].constructs = 1 <=> ~(\E m \in 1..(n - 1) : Built(m))
           /\ \A m \in 1..(n - 1) :
                 Built(m) => /\ ~lookups[n].raised
                             /\ lookups[n].returned = lookups[m].returned
           /\ lookups[n].raised => lookups[n].cache_after = NoInstance

\* a failed construction, a retry that succeeds, then two calls (one naming
\* another model) served from the cache
C22_Witness ==
    /\ pc = "cache"
    /\ Len(lookups) = 4
    /\ lookups[1].raised
    /\ Built(2)
    /\ lookups[3].model_name # lookups[2].model_name
    /\ lookups[3].constructs = 0
    /\ lookups[4].returned = lookups[2].returned
    /\ lookups[4].returned # NoInstance

(***************************************************************************)
(* Deduplication of the variants                                           *)
(***************************************************************************)
\* no two positions of s hold the same string
Distinct(s) == \A i, j \in 1..Len(s) : s[i] = s[j] => i = j

\* s without the later occurrences of a string already met
RECURSIVE DedupFrom(_, _)
DedupFrom(s, out) ==
    IF s = <<>> THEN out
    ELSE DedupFrom(Tail(s), IF InSeq(Head(s), out) THEN out ELSE Append(out, Head(s)))
Dedup(s) == DedupFrom(s, <<>>)

\* s without its empty strings
RECURSIVE NonEmpty(_)
NonEmpty(s) ==
    IF s = <<>> THEN <<>>
    ELSE (IF Head(s) = <<>> THEN <<>> ELSE <<Head(s)>>) \o NonEmpty(Tail(s))

\* the candidate variants of the finished call, before any deduplication or
\* cut: the query and its case variants, or the query and the model's lines
Candidates ==
    LET q == Strip(req.query)
    IN IF req.expander = "tools"
       THEN <<req.query, Strip(Lower(req.query)), Strip(Upper(req.query))>>
       ELSE IF req.expander = "fallback" \/ req.llm.mode # "ok"
       THEN NonEmpty(<<q, Strip(Lower(q)), Strip(Upper(q))>>)
       ELSE LET variants == CleanLines(req.llm.lines)
            IN IF InSeq(q, variants) THEN variants ELSE <<q>> \o variants

\* the finished call took the path on which the model answered
LlmPath == req.expander = "llm" /\ req.llm.mode = "ok"

\* C23: for every query and n the expander returns no two equal strings, and
\* it returns the first n of the deduplicated candidates (duplicates are
\* removed before the cut), on the LLM path as on the fallback paths.
C23_VariantsDeduplicated ==
    pc = "expanded" =>
        /\ Distinct(queries)
        /\ queries = Slice(Dedup(Candidates), SomeInt(req.n))

\* the same statement without the path on which the model answers
C23_FallbackDeduplicated ==
    (pc = "expanded" /\ ~LlmPath) =>
        /\ Distinct(queries)
        /\ queries = Slice(Dedup(Candidates), SomeInt(req.n))

\* a fallback call whose lower-case candidate repeats the query, so that the
\* upper-case one takes the second slot
C23_FallbackWitness ==
    /\ pc = "expanded"
    /\ ~LlmPath
    /\ req.query = <<"a">>
    /\ req.n = 2
    /\ queries = <<<<"a">>, <<"A">>>>

(***************************************************************************)
(* The query handed to the scorer                                          *)
(***************************************************************************)
\* a reranking stage ran in the finished search: a scorer was handed a query
RerankRan == pc = "done" /\ outcome.scoring_query # <<>>

\* C24: whenever a reranking stage runs (embedding or cross-encoder), the
\* query passed to the scorer is the verbatim original user query, never a
\* generated variant, for every variant list the expander can return.
C24_ScoringQuery == RerankRan => outcome.scoring_query = <<req.query>>

\* the same statement for PineconeSearchTool.search alone
C24_ToolsScoringQuery ==
    (RerankRan /\ impl = "tools") => outcome.scoring_query = <<req.query>>

\* the tool expanded the query into three variants and reranked by embedding
C24_ToolsWitness ==
    /\ RerankRan
    /\ impl = "tools"
    /\ Len(queries) = 3
    /\ req.method = "embedding"
    /\ outcome.embed_calls = 2
    /\ outcome.scoring_query = <<TheQuery>>

(***************************************************************************)
(* Dispatch on the classified label                                        *)
(***************************************************************************)
\* the agent answered a question whose label is one of labels
Dispatched(labels) ==
    /\ pc = "answered"
    /\ req.question_type \in labels
    /\ ~outcome.raised

\* the answer is the one of the handler of the classified label
AnsweredAsClassified ==
    /\ outcome.question_type = req.question_type
    /\ outcome.used_tool <=> req.question_type = "internal_docs"
    /\ req.question_type # "internal_docs" => outcome.sources = NoSources

\* C25: for each label of the closed set {greeting, farewell,
\* clarification_needed, internal_docs, general_knowledge} the handler of
\* that intent runs and the response's question_type is the classified
\* label; used_tool is true iff the label is internal_docs and sources is
\* null for every other label.
C25_IntentDispatch == Dispatched(QuestionType) => AnsweredAsClassified

\* the same statement for the labels other than greeting
C25_DispatchButGreeting ==
    Dispatched(QuestionType \ {"greeting"}) => AnsweredAsClassified

\* a farewell answered by the farewell handler, without the tool
C25_FarewellWitness ==
    /\ Dispatched({"farewell"})
    /\ outcome.question_type = "farewell"
    /\ outcome.generation_calls = 1
    /\ ~outcome.used_tool

(***************************************************************************)
(* The relevance line of a formatted block                                 *)
(***************************************************************************)
\* the results the finished call shows
Shown == Slice(req.results, SomeInt(req.max_results))

\* the block of result n has a relevance line right after its label line
HasRelevanceLine(n) ==
    \E p \in 1..(Len(outcome.text) - 1) :
       /\ outcome.text[p].kind = "label"
       /\ outcome.text[p].n = n
       /\ outcome.text[p + 1].kind = "relevance"

\* PineconeSearchTool.format_results_for_context formatted a non-empty list
ToolFormatted == pc = "formatted" /\ impl = "tools" /\ req.results # <<>>

\* C26: for every result among the first max_results,
\* format_results_for_context emits the relevance line whenever the result
\* has a rerank score (any numeric value) and omits it only when the result
\* has none.
C26_RelevanceLine ==
    ToolFormatted =>
        \A n \in 1..Len(Shown) :
           HasRelevanceLine(n) <=> IsInt(Shown[n].rerank_score)

\* what the code does: the line is emitted for a rerank score that is
\* neither absent nor zero
C26_RelevanceWhenTruthy ==
    ToolFormatted =>
        \A n \in 1..Len(Shown) :
           HasRelevanceLine(n) <=>
              (IsInt(Shown[n].rerank_score) /\ IntOf(Shown[n].rerank_score) # 0)

\* a result with a non-zero rerank score shown with its relevance line
C26_TruthyWitness ==
    /\ ToolFormatted
    /\ Len(Shown) = 1
    /\ Shown[1].rerank_score = SomeInt(4)
    /\ HasRelevanceLine(1)

(***************************************************************************)
(* ConversationManager: the generated session id                           *)
(***************************************************************************)
MaxManagers == 3
MaxTicks == 3
\* datetime.now() is finer than the second '%S' prints: clock ticks per second
TicksPerSecond == 2

\* a session id: its literal text and, when generated, the formatted stamp
GivenSessionId(text) == [text |-> text, stamp |-> NoInt]

\* datetime.strftime('%Y%m%d_%H%M%S'): the time cut to the whole second
StrfTime(t) == t \div TicksPerSecond

\* ConversationManager._generate_session_id at clock reading t
GenerateSessionId(t) == [text |-> "session_", stamp |-> SomeInt(StrfTime(t))]

\* the session_id arguments: omitted (None), empty, or an explicit id
SessionIdArgs == {None, "", "s1"}

\* ConversationManager.__init__(session_id) at clock reading t
ConversationManagerInit(session_id, t) ==
    [session_id |-> IF session_id = None \/ session_id = ""
                    THEN GenerateSessionId(t) ELSE GivenSessionId(session_id),
     explicit |-> session_id # None,
     history |-> <<>>,
     created_at |-> t]

\* a ConversationManager is created
NewConversationManager ==
    /\ pc = "conversation"
    /\ Len(conversations) < MaxManagers
    /\ \E sid \in SessionIdArgs :
          conversations' = Append(conversations, ConversationManagerInit(sid, now))
    /\ UNCHANGED <<memory_store, now, MAX_HISTORY, handlers, response, turns,
                   pinecone_tool, constructed, requests, PINECONE_API_KEY>>
    /\ UNCHANGED pipelineVars

\* ConversationManager.add_turn on manager i: the turn goes to its own list
AddTurn(i) ==
    /\ pc = "conversation"
    /\ conversations[i].history = <<>>
    /\ conversations' =
          [conversations EXCEPT ![i].history = Append(@, [user_message |-> "oi"])]
    /\ UNCHANGED <<memory_store, now, MAX_HISTORY, handlers, response, turns,
                   pinecone_tool, constructed, requests, PINECONE_API_KEY>>
    /\ UNCHANGED pipelineVars

ConversationAddTurn == \E i \in 1..Len(conversations) : AddTurn(i)

\* the wall clock advances
ClockTick ==
    /\ pc = "conversation"
    /\ now < MaxTicks
    /\ now' = now + 1
    /\ UNCHANGED <<memory_store, MAX_HISTORY, handlers, response, turns,
                   pinecone_tool, constructed, requests, PINECONE_API_KEY,
                   conversations>>
    /\ UNCHANGED pipelineVars

ConversationInit ==
    /\ impl = "conversation_manager"
    /\ use_mock = FALSE
    /\ pc = "conversation"
    /\ req = <<>>
    /\ queries = <<>>
    /\ qi = 1
    /\ collected = <<>>
    /\ seen = {}
    /\ lookups = <<>>
    /\ CROSS_ENCODER_CACHE = None
    /\ env = NoEnv
    /\ outcome = NoOutcome
    /\ ServiceIdle

ConversationNext == NewConversationManager \/ ConversationAddTurn \/ ClockTick

SpecConversation == ConversationInit /\ [][ConversationNext]_vars

\* managers i and j are two managers created without an explicit session_id
BothGenerated(i, j) ==
    /\ i # j
    /\ ~conversations[i].explicit
    /\ ~conversations[j].explicit

\* C27: any two ConversationManager instances created without an explicit
\* session_id receive different session_ids, however close in time they are
\* created.
C27_SessionIdUnique ==
    \A i, j \in 1..Len(conversations) :
       BothGenerated(i, j) =>
          conversations[i].session_id # conversations[j].session_id

\* what the code gives: two generated ids differ exactly when the managers
\* were created in different seconds
C27_UniquePerSecond ==
    \A i, j \in 1..Len(conversations) :
       BothGenerated(i, j) =>
          (conversations[i].session_id # conversations[j].session_id
             <=> StrfTime(conversations[i].created_at)
                    # StrfTime(conversations[j].created_at))

\* two managers created a second apart, with different generated ids
C27_PerSecondWitness ==
    /\ pc = "conversation"
    /\ Len(conversations) >= 2
    /\ BothGenerated(1, 2)
    /\ conversations[1].created_at = 0
    /\ conversations[2].created_at = TicksPerSecond
    /\ conversations[1].session_id # conversations[2].session_id

(***************************************************************************)
(* What a /chat request changes in the session store                       *)
(***************************************************************************)
\* the step is a step of a /chat handler: its load, or its answer
ChatStep == response'.op \in {"chat", "load"} /\ now' = now

\* the entries of the other session ids are what they were
OthersUntouched ==
    \A s \in Sessions :
       s # response'.sid => DictGet(memory_store', s) = DictGet(memory_store, s)

\* a load_memory after the step returns, for every session, what it would
\* have returned before the step
SameHistory ==
    \A s \in Sessions :
       LoadMemory(memory_store', s, now).messages
          = LoadMemory(memory_store, s, now).messages

\* the step stored, for the session of the request, the history the request
\* had loaded followed by its question and its answer, cut to MAX_HISTORY
ExtendedByTurn ==
    \E t \in Threads :
       /\ handlers[t].pc = "loaded"
       /\ handlers'[t].pc = "idle"
       /\ handlers[t].sid = response'.sid
       /\ response'.sid \in DOMAIN memory_store'
       /\ memory_store'[response'.sid].messages =
             SliceFrom(handlers[t].messages
                          \o <<UserMessage(handlers[t].turn),
                               AiMessage(handlers[t].turn)>>,
                       0 - MAX_HISTORY)

\* C28: a /chat request answered with 400 or 500 records no part of a turn
\* (a later load_memory returns what it would have returned before), a
\* request answered with 200 extends the history it loaded by exactly the
\* user question and the assistant answer before the cut to MAX_HISTORY,
\* and the entries of other session ids are never modified.
C28_ChatFrame ==
    [][ChatStep =>
          /\ OthersUntouched
          /\ response'.op = "load" => SameHistory
          /\ response'.status \in {400, 500} => SameHistory
          /\ response'.status = 200 => ExtendedByTurn]_vars

\* the same statement for the requests that do not fail after update_memory
C28_FrameUnlessLateError ==
    [][ChatStep =>
          /\ OthersUntouched
          /\ response'.op = "load" => SameHistory
          /\ (/\ response'.status \in {400, 500}
              /\ "update_memory" \notin response'.calls) => SameHistory
          /\ response'.status = 200 => ExtendedByTurn]_vars

\* a request answered 200 whose turn follows an earlier turn of the session
C28_ExtendedWitness ==
    /\ response.op = "chat"
    /\ response.status = 200
    /\ response.sid \in DOMAIN memory_store
    /\ Len(memory_store[response.sid].messages) = 4
    /\ memory_store[response.sid].messages[3] = UserMessage(2)
    /\ memory_store[response.sid].messages[4] = AiMessage(2)

(***************************************************************************)
(* /chat: which requests reach the retrieval                               *)
(***************************************************************************)
\* a JSON value of the payload: its type and its text ("absent": no such key)
JsonValue(type, text) == [type |-> type, text |-> text]
Absent == JsonValue("absent", <<>>)
Null == JsonValue("null", <<>>)

\* payload.get(key, default)
PayloadGet(val, default) == IF val.type = "absent" THEN default ELSE val

\* str.lower() on the words of a flag
LowerWord(w) == IF w = "ON" THEN "on" ELSE IF w = "Yes" THEN "yes" ELSE w
LowerWords(s) == [i \in 1..Len(s) |-> LowerWord(s[i])]

\* main._to_bool
ToBool(val, default) ==
    IF val.type = "null" THEN default
    ELSE IF val.type = "bool" THEN val.text = <<"true">>
    ELSE IF val.type = "number" THEN val.text # <<"0">>
    ELSE IF val.type = "string"
    THEN LET s == LowerWords(StripChars(val.text, {" "}))
         IN IF s \in {<<"1">>, <<"true">>, <<"t">>, <<"yes">>, <<"y">>, <<"on">>}
            THEN TRUE
            ELSE IF s \in {<<"0">>, <<"false">>, <<"f">>, <<"no">>, <<"n">>,
                           <<"off">>}
            THEN FALSE
            ELSE default
    ELSE default

\* the labels answered without retrieval whatever the request asks
NoRagLabels == {"greeting", "farewell", "clarification_needed"}

\* what the handler did: the flag, the prompt, the calls in order, the
\* sources of the response (None, or the serialised list)
Routed(use_rag, prompt, calls, retrieved) ==
    [use_rag |-> use_rag, prompt |-> prompt, calls |-> calls,
     mode |-> IF use_rag THEN "rag" ELSE "no_rag",
     sources |-> IF use_rag THEN SourceList(retrieved) ELSE NoSources]

\* a mutant: the flag is not forced to false for the three labels
ChatRouteNoGate(router, label, use_rag, force_rag) ==
    LET question_type == IF router THEN label ELSE "internal_docs"
        raw_use_rag == PayloadGet(use_rag, PayloadGet(force_rag, Null))
        flag == ToBool(raw_use_rag, question_type = "internal_docs")
        classify == IF router THEN <<"classifier">> ELSE <<>>
    IN IF question_type \in NoRagLabels
       THEN Routed(flag, question_type, classify \o <<"generation">>, <<>>)
       ELSE IF ~flag
       THEN Routed(flag, "general", classify \o <<"generation">>, <<>>)
       ELSE Routed(flag, "rag",
                   classify \o <<"expansion", "retrieval", "generation">>,
                   <<"passage">>)

\* chat, lines 504-558 and 568-576: router says whether QUESTION_ROUTER is
\* set, label is what it answers
ChatRoute(router, label, use_rag, force_rag) ==
    LET question_type == IF router THEN label ELSE "internal_docs"
        raw_use_rag == PayloadGet(use_rag, PayloadGet(force_rag, Null))
        default_use_rag == question_type = "internal_docs"
        flag == IF question_type \in NoRagLabels THEN FALSE
                ELSE ToBool(raw_use_rag, default_use_rag)
        classify == IF router THEN <<"classifier">> ELSE <<>>
    IN IF question_type \in NoRagLabels
       THEN Routed(flag, question_type, classify \o <<"generation">>, <<>>)
       ELSE IF ~flag
       THEN Routed(flag, "general", classify \o <<"generation">>, <<>>)
       ELSE Routed(flag, "rag",
                   classify \o <<"expansion", "retrieval", "generation">>,
                   <<"passage">>)

\* the values a request gives use_rag and force_rag
UseRagValues ==
    {Absent, Null, JsonValue("bool", <<"true">>), JsonValue("bool", <<"false">>),
     JsonValue("number", <<"0">>), JsonValue("number", <<"2">>),
     JsonValue("string", <<" ", "ON", " ">>), JsonValue("string", <<"Yes">>),
     JsonValue("string", <<"off">>), JsonValue("string", <<"maybe">>),
     JsonValue("array", <<>>)}
ForceRagValues ==
    {Absent, JsonValue("bool", <<"true">>), JsonValue("bool", <<"false">>),
     JsonValue("string", <<"y">>)}

ChatRouteCall ==
    /\ pc = "route"
    /\ outcome' = ChatRoute(req.router, req.label, req.use_rag, req.force_rag)
    /\ pc' = "routed"
    /\ UNCHANGED <<impl, use_mock, req, queries, qi, collected, seen, lookups,
                   CROSS_ENCODER_CACHE, env>>
    /\ UNCHANGED serviceVars

ChatRouteInit ==
    /\ pc = "route"
    /\ impl = "main"
    /\ \E router \in BOOLEAN, label \in valid_types, u \in UseRagValues,
          f \in ForceRagValues :
          req = [router |-> router, label |-> label, use_rag |-> u,
                 force_rag |-> f]
    /\ use_mock = FALSE
    /\ queries = <<>>
    /\ qi = 1
    /\ collected = <<>>
    /\ seen = {}
    /\ lookups = <<>>
    /\ CROSS_ENCODER_CACHE = None
    /\ env = NoEnv
    /\ outcome = NoOutcome
    /\ ServiceIdle

ChatRouteNext == ChatRouteCall

SpecChatRoute == ChatRouteInit /\ [][ChatRouteNext]_vars

\* the label the request was handled under
LabelOf == IF req.router THEN req.label ELSE "internal_docs"

\* the value the request gives the flag: use_rag, or force_rag when the
\* payload has no use_rag key
RequestFlag == IF req.use_rag # Absent THEN req.use_rag ELSE req.force_rag

\* the values that say yes, and those that say no
YesValues ==
    {JsonValue("bool", <<"true">>), JsonValue("number", <<"2">>),
     JsonValue("string", <<" ", "ON", " ">>), JsonValue("string", <<"Yes">>),
     JsonValue("string", <<"y">>)}
NoValues ==
    {JsonValue("bool", <<"false">>), JsonValue("number", <<"0">>),
     JsonValue("string", <<"off">>)}

\* the effective flag: the request's value if it gives one, otherwise true
\* exactly for internal_docs
EffectiveUseRag ==
    IF RequestFlag \in YesValues THEN TRUE
    ELSE IF RequestFlag \in NoValues THEN FALSE
    ELSE LabelOf = "internal_docs"

\* the handler expanded the query or looked the index up
Retrieved == InSeq("expansion", outcome.calls) \/ InSeq("retrieval", outcome.calls)

\* C29: when the classifier returns greeting, farewell or
\* clarification_needed no query expansion and no index retrieval is
\* performed and the response's sources is null, even if the request sets
\* use_rag or force_rag to true; for the remaining labels retrieval runs if
\* and only if the effective use_rag flag is true.
C29_RetrievalGating ==
    pc = "routed" =>
        /\ LabelOf \in NoRagLabels => (~Retrieved /\ outcome.sources = NoSources)
        /\ LabelOf \notin NoRagLabels =>
              /\ Retrieved <=> EffectiveUseRag
              /\ Retrieved <=> (InSeq("expansion", outcome.calls)
                                  /\ InSeq("retrieval", outcome.calls))
              /\ outcome.sources # NoSources <=> EffectiveUseRag

\* a greeting asked with use_rag = true answered without retrieval, and
\* with null sources
C29_Witness ==
    /\ pc = "routed"
    /\ req.router
    /\ req.label = "greeting"
    /\ req.use_rag = JsonValue("bool", <<"true">>)
    /\ outcome.calls = <<"classifier", "generation">>
    /\ outcome.sources = NoSources

\* a general_knowledge question asked with force_rag = true goes through
\* the retrieval
C29_ForcedWitness ==
    /\ pc = "routed"
    /\ req.router
    /\ req.label = "general_knowledge"
    /\ req.use_rag = Absent
    /\ req.force_rag = JsonValue("bool", <<"true">>)
    /\ Retrieved

(***************************************************************************)
(* /clear of an expired session                                            *)
(***************************************************************************)
\* the last request was a /clear that met an entry at or past its expires_at
\* (the entry was still stored: nothing had read the session since)
ClearedExpired ==
    /\ response.op = "clear"
    /\ response.sid # None
    /\ response.before # <<>>
    /\ response.before[1].expires_at <= response.at

\* C30: a /clear (clear_memory) of a session whose entry has passed its
\* expires_at and has not been accessed since reports that nothing was
\* found (404), the answer it gives for a session id that was never stored.
C30_ClearExpired == ClearedExpired => response.status = 404

\* the answer for a session id with no entry in the store
C30_ClearAbsent ==
    (response.op = "clear" /\ response.sid # None /\ response.before = <<>>)
        => response.status = 404

(***************************************************************************)
(* The whole model: any of the operations above                            *)
(***************************************************************************)
Init ==
    \/ RetrieveInit \/ RerankInit \/ ExpandInit \/ SearchInit
    \/ RouterInit \/ FormatInit \/ AgentInit
    \/ SessionInit \/ SingletonInit \/ ToolInit
    \/ ScorerCacheInit \/ ConversationInit \/ ChatRouteInit

Next ==
    \/ RetrieveNext \/ RerankNext \/ ExpandNext \/ SearchNext
    \/ RouterNext \/ FormatNext \/ AgentNext
    \/ SessionNext \/ InputChatReceive \/ SingletonNext \/ ToolNext
    \/ ScorerCacheNext \/ ConversationNext \/ ChatRouteNext

Spec == Init /\ [][Next]_vars

====
